---- MODULE Spec2Model ----
(***************************************************************************)
(* TinyDB: a B+Tree index per table, a write-ahead log replayed at start,  *)
(* and an engine with at most one buffered transaction.                     *)
(*                                                                         *)
(* Strings are modelled by naturals: keys, values and table names are      *)
(* 1..N with the order of the naturals standing for Go's string order, and *)
(* 0 stands for the empty string "".  A node pointer is a natural, Nil = 0,*)
(* and the nodes of a tree live in a heap (a function from ids to node     *)
(* records).                                                               *)
(***************************************************************************)
EXTENDS Naturals, Sequences, FiniteSets, TLC

\* ------------------------------------------------------------------ bounds
NumKeys == 5
NumVals == 2
MaxNodes == 4
NumTables == 1
NumWalKeys == 2
NumTx == 2
MaxLog == 4
MaxStmt == 1
MaxEngineLog == 4
MaxMultipleLog == 3
MaxDeepLog == 9
NumCallers == 2
MaxCalls == 3
MaxLockStmt == 2
NumTallKeys == 10
MaxTallNodes == 8

Keys == 1..NumKeys
Vals == 1..NumVals
Tables == 1..NumTables
WalKeys == 1..NumWalKeys
TxIds == 1..NumTx
Callers == 1..NumCallers

\* ------------------------------------------------------- program constants
ORDER == 4
MIN_KEYS == (ORDER \div 2) - 1

Nil == 0

VARIABLES tree, abs, wal, tables, currentTxID, txChanges, txDeletes, txDroppedTables, clock,
          result, mu, calls, tickets, writers

treeVars == <<tree, abs>>
engineVars == <<tables, currentTxID, txChanges, txDeletes, txDroppedTables, clock, result>>
\* The mutex of the engine and the callers of Execute: mu is the caller that
\* holds e.mu (0: none), calls is where each caller is in Execute, tickets
\* counts the times e.mu was locked, writers is, record by record, the number
\* of the lock under which the record was appended.
lockVars == <<mu, calls, tickets, writers>>
vars == <<tree, abs, wal, tables, currentTxID, txChanges, txDeletes, txDroppedTables, clock,
          result, mu, calls, tickets, writers>>

\* What Execute returns: the text of a message with the table name, count or
\* transaction id it is formatted with (0: none), or the rows of a SELECT.
Message(msg, table) == [msg |-> msg, table |-> table, n |-> 0, tx |-> 0, rows |-> <<>>]
Counted(msg, n, table) == [msg |-> msg, table |-> table, n |-> n, tx |-> 0, rows |-> <<>>]
TxMessage(msg, txID) == [msg |-> msg, table |-> 0, n |-> 0, tx |-> txID, rows |-> <<>>]

\* Execute has not been called.
NoResult == Message("", 0)

\* The Engine fields before NewEngine has run: no table, no transaction.
NoEngine ==
    /\ tables = <<>>
    /\ currentTxID = 0
    /\ txChanges = <<>>
    /\ txDeletes = <<>>
    /\ txDroppedTables = {}
    /\ clock = 0
    /\ result = NoResult

\* No caller is in Execute, e.mu is unlocked and was never locked.
NoCallers ==
    /\ mu = 0
    /\ calls = [p \in Callers |-> [pc |-> "idle", ticket |-> 0, todo |-> <<>>]]
    /\ tickets = 0
    /\ writers = <<>>

\* ----------------------------------------------------------- slice helpers
\* append(s[:i], append([]T{x}, s[i:]...)...): x lands at 0-based index i.
SeqInsert(s, i, x) == SubSeq(s, 1, i) \o <<x>> \o SubSeq(s, i + 1, Len(s))

\* append(s[:i], s[i+1:]...): the element at 0-based index i is removed.
SeqRemove(s, i) == SubSeq(s, 1, i) \o SubSeq(s, i + 2, Len(s))

\* The smallest id that is not a node of the heap (a fresh allocation).
NewId(h) == CHOOSE i \in 1..(Cardinality(DOMAIN h) + 1) :
                i \notin DOMAIN h /\ \A j \in 1..(i - 1) : j \in DOMAIN h

EmptyLeaf == [isLeaf |-> TRUE, keys |-> <<>>, children |-> <<>>, values |-> <<>>, next |-> Nil]

NewBPlusTree == [root |-> 1, nodes |-> (1 :> EmptyLeaf)]

\* --------------------------------------------------------------- index scans
\* i := 0; for i < len(keys) && keys[i] < key { i++ }
LeafScan(keys, key) ==
    CHOOSE i \in 0..Len(keys) :
        /\ \A j \in 1..i : keys[j] < key
        /\ (i = Len(keys) \/ ~(keys[i + 1] < key))

\* i := 0; for i < len(keys) && key > keys[i] { i++ }
InsertScan(keys, key) ==
    CHOOSE i \in 0..Len(keys) :
        /\ \A j \in 1..i : key > keys[j]
        /\ (i = Len(keys) \/ ~(key > keys[i + 1]))

\* i := 0; for i < len(keys) && key >= keys[i] { i++ }
DescendScan(keys, key) ==
    CHOOSE i \in 0..Len(keys) :
        /\ \A j \in 1..i : key >= keys[j]
        /\ (i = Len(keys) \/ ~(key >= keys[i + 1]))

\* ------------------------------------------------------------------- insert
NoSplit(h) == [h |-> h, midKey |-> 0, sibling |-> Nil]

splitLeaf(h, n) ==
    LET mid == Len(h[n].keys) \div 2
        sib == NewId(h)
        sibling == [isLeaf |-> TRUE,
                    keys |-> SubSeq(h[n].keys, mid + 1, Len(h[n].keys)),
                    children |-> <<>>,
                    values |-> SubSeq(h[n].values, mid + 1, Len(h[n].values)),
                    next |-> h[n].next]
        h1 == [h EXCEPT ![n].keys = SubSeq(@, 1, mid),
                        ![n].values = SubSeq(@, 1, mid),
                        ![n].next = sib]
    IN [h |-> (sib :> sibling) @@ h1, midKey |-> sibling.keys[1], sibling |-> sib]

splitInternal(h, n) ==
    LET midKeyIndex == Len(h[n].keys) \div 2
        sib == NewId(h)
        promotedKey == h[n].keys[midKeyIndex + 1]
        sibling == [isLeaf |-> FALSE,
                    keys |-> SubSeq(h[n].keys, midKeyIndex + 2, Len(h[n].keys)),
                    children |-> SubSeq(h[n].children, midKeyIndex + 2, Len(h[n].children)),
                    values |-> <<>>,
                    next |-> Nil]
        h1 == [h EXCEPT ![n].keys = SubSeq(@, 1, midKeyIndex),
                        ![n].children = SubSeq(@, 1, midKeyIndex + 1)]
    IN [h |-> (sib :> sibling) @@ h1, midKey |-> promotedKey, sibling |-> sib]

RECURSIVE insert(_, _, _, _)
insert(h, n, key, value) ==
    IF h[n].isLeaf
    THEN LET i == LeafScan(h[n].keys, key)
         IN IF i < Len(h[n].keys) /\ h[n].keys[i + 1] = key
            THEN NoSplit([h EXCEPT ![n].values[i + 1] = value])
            ELSE LET h1 == [h EXCEPT ![n].keys = SeqInsert(@, i, key),
                                     ![n].values = SeqInsert(@, i, value)]
                 IN IF Len(h1[n].keys) < ORDER THEN NoSplit(h1) ELSE splitLeaf(h1, n)
    ELSE LET i == InsertScan(h[n].keys, key)
             r == insert(h, h[n].children[i + 1], key, value)
         IN IF r.sibling = Nil
            THEN NoSplit(r.h)
            ELSE LET h1 == [r.h EXCEPT ![n].keys = SeqInsert(@, i, r.midKey),
                                       ![n].children = SeqInsert(@, i + 1, r.sibling)]
                 IN IF Len(h1[n].keys) < ORDER THEN NoSplit(h1) ELSE splitInternal(h1, n)

\* A variant that puts a new root over the old one as soon as the old root
\* is full after the insert, before any split reaches it.
InsertEager(t, key, value) ==
    LET r == insert(t.nodes, t.root, key, value)
    IN IF r.sibling # Nil \/ Len(r.h[t.root].keys) = ORDER - 1
       THEN LET s == IF r.sibling # Nil THEN r
                     ELSE IF r.h[t.root].isLeaf THEN splitLeaf(r.h, t.root)
                     ELSE splitInternal(r.h, t.root)
                nr == NewId(s.h)
                newRoot == [isLeaf |-> FALSE, keys |-> <<s.midKey>>,
                            children |-> <<t.root, s.sibling>>,
                            values |-> <<>>, next |-> Nil]
            IN [root |-> nr, nodes |-> (nr :> newRoot) @@ s.h]
       ELSE [root |-> t.root, nodes |-> r.h]

Insert(t, key, value) ==
    LET r == insert(t.nodes, t.root, key, value)
    IN IF r.sibling # Nil
       THEN LET nr == NewId(r.h)
                newRoot == [isLeaf |-> FALSE, keys |-> <<r.midKey>>,
                            children |-> <<t.root, r.sibling>>,
                            values |-> <<>>, next |-> Nil]
            IN [root |-> nr, nodes |-> (nr :> newRoot) @@ r.h]
       ELSE [root |-> t.root, nodes |-> r.h]

\* ---------------------------------------------------------------------- get
RECURSIVE GetLeaf(_, _, _)
GetLeaf(h, n, key) ==
    IF h[n].isLeaf THEN n
    ELSE GetLeaf(h, h[n].children[DescendScan(h[n].keys, key) + 1], key)

\* Get returns (value, found); the value is 0 ("") when not found.
Get(t, key) ==
    LET nd == t.nodes[GetLeaf(t.nodes, t.root, key)]
        hits == {i \in 1..Len(nd.keys) : nd.keys[i] = key}
    IN IF hits = {} THEN [value |-> 0, found |-> FALSE]
       ELSE [value |-> nd.values[CHOOSE i \in hits : \A j \in hits : i <= j], found |-> TRUE]

\* ------------------------------------------------------------------- delete
\* for i, k := range n.keys { if k == key { remove i; return true } }; return false
deleteFromLeaf(h, n, key) ==
    LET hits == {i \in 1..Len(h[n].keys) : h[n].keys[i] = key}
    IN IF hits = {} THEN [h |-> h, found |-> FALSE]
       ELSE LET i == CHOOSE x \in hits : \A y \in hits : x <= y
            IN [h |-> [h EXCEPT ![n].keys = SeqRemove(@, i - 1),
                                ![n].values = SeqRemove(@, i - 1)],
                found |-> TRUE]

redistributeFromLeft(h, n, leftSibling, underflowingChild, separatorIndex) ==
    LET l == h[leftSibling]
        u == h[underflowingChild]
    IN IF u.isLeaf
       THEN LET keyToMove == l.keys[Len(l.keys)]
                valueToMove == l.values[Len(l.values)]
                ukeys == <<keyToMove>> \o u.keys
            IN [h EXCEPT ![leftSibling].keys = SubSeq(@, 1, Len(@) - 1),
                         ![leftSibling].values = SubSeq(@, 1, Len(@) - 1),
                         ![underflowingChild].keys = ukeys,
                         ![underflowingChild].values = <<valueToMove>> \o @,
                         ![n].keys[separatorIndex + 1] = ukeys[1]]
       ELSE LET promotedKey == h[n].keys[separatorIndex + 1]
                childToMove == l.children[Len(l.children)]
            IN [h EXCEPT ![n].keys[separatorIndex + 1] = l.keys[Len(l.keys)],
                         ![leftSibling].keys = SubSeq(@, 1, Len(@) - 1),
                         ![leftSibling].children = SubSeq(@, 1, Len(@) - 1),
                         ![underflowingChild].keys = <<promotedKey>> \o @,
                         ![underflowingChild].children = <<childToMove>> \o @]

redistributeFromRight(h, n, underflowingChild, rightSibling, separatorIndex) ==
    LET r == h[rightSibling]
        u == h[underflowingChild]
    IN IF u.isLeaf
       THEN LET keyToMove == r.keys[1]
                valueToMove == r.values[1]
                rkeys == Tail(r.keys)
            IN [h EXCEPT ![rightSibling].keys = rkeys,
                         ![rightSibling].values = Tail(@),
                         ![underflowingChild].keys = Append(@, keyToMove),
                         ![underflowingChild].values = Append(@, valueToMove),
                         ![n].keys[separatorIndex + 1] = rkeys[1]]
       ELSE LET promotedKey == h[n].keys[separatorIndex + 1]
                childToMove == r.children[1]
            IN [h EXCEPT ![n].keys[separatorIndex + 1] = r.keys[1],
                         ![rightSibling].keys = Tail(@),
                         ![rightSibling].children = Tail(@),
                         ![underflowingChild].keys = Append(@, promotedKey),
                         ![underflowingChild].children = Append(@, childToMove)]

merge(h, n, sibling1, sibling2, separatorIndex) ==
    LET s2 == h[sibling2]
        h1 == IF h[sibling1].isLeaf
              THEN [h EXCEPT ![sibling1].keys = @ \o s2.keys,
                             ![sibling1].values = @ \o s2.values,
                             ![sibling1].next = s2.next]
              ELSE [h EXCEPT ![sibling1].keys = Append(@, h[n].keys[separatorIndex + 1]) \o s2.keys,
                             ![sibling1].children = @ \o s2.children]
    IN [h1 EXCEPT ![n].keys = SeqRemove(@, separatorIndex),
                  ![n].children = SeqRemove(@, separatorIndex + 1)]

\* A variant that asks the right sibling first.
handleUnderflowRightFirst(h, n, childIndex) ==
    LET ch == h[n].children
        underflowingChild == ch[childIndex + 1]
    IN IF childIndex < Len(ch) - 1 /\ Len(h[ch[childIndex + 2]].keys) > MIN_KEYS
       THEN [h |-> redistributeFromRight(h, n, underflowingChild, ch[childIndex + 2], childIndex),
             underflow |-> FALSE]
       ELSE IF childIndex > 0 /\ Len(h[ch[childIndex]].keys) > MIN_KEYS
       THEN [h |-> redistributeFromLeft(h, n, ch[childIndex], underflowingChild, childIndex - 1),
             underflow |-> FALSE]
       ELSE LET h1 == IF childIndex > 0
                      THEN merge(h, n, ch[childIndex], underflowingChild, childIndex - 1)
                      ELSE merge(h, n, underflowingChild, ch[childIndex + 2], childIndex)
            IN [h |-> h1, underflow |-> Len(h1[n].keys) < MIN_KEYS]

\* childIndex is the 0-based index of the underflowing child among n's children.
handleUnderflow(h, n, childIndex) ==
    LET ch == h[n].children
        underflowingChild == ch[childIndex + 1]
    IN IF childIndex > 0 /\ Len(h[ch[childIndex]].keys) > MIN_KEYS
       THEN [h |-> redistributeFromLeft(h, n, ch[childIndex], underflowingChild, childIndex - 1),
             underflow |-> FALSE]
       ELSE IF childIndex < Len(ch) - 1 /\ Len(h[ch[childIndex + 2]].keys) > MIN_KEYS
       THEN [h |-> redistributeFromRight(h, n, underflowingChild, ch[childIndex + 2], childIndex),
             underflow |-> FALSE]
       ELSE LET h1 == IF childIndex > 0
                      THEN merge(h, n, ch[childIndex], underflowingChild, childIndex - 1)
                      ELSE merge(h, n, underflowingChild, ch[childIndex + 2], childIndex)
            IN [h |-> h1, underflow |-> Len(h1[n].keys) < MIN_KEYS]

\* A variant that loses *keyDeleted when it repairs an underflow.
RECURSIVE deleteLosingFlag(_, _, _)
deleteLosingFlag(h, n, key) ==
    IF h[n].isLeaf
    THEN LET d == deleteFromLeaf(h, n, key)
         IN [h |-> d.h, underflow |-> Len(d.h[n].keys) < MIN_KEYS, keyDeleted |-> d.found]
    ELSE LET i == DescendScan(h[n].keys, key)
             r == deleteLosingFlag(h, h[n].children[i + 1], key)
         IN IF r.underflow
            THEN LET u == handleUnderflow(r.h, n, i)
                 IN [h |-> u.h, underflow |-> u.underflow, keyDeleted |-> FALSE]
            ELSE [h |-> r.h, underflow |-> FALSE, keyDeleted |-> r.keyDeleted]

\* delete returns the heap, whether n underflowed, and *keyDeleted.
RECURSIVE delete(_, _, _)
delete(h, n, key) ==
    IF h[n].isLeaf
    THEN LET d == deleteFromLeaf(h, n, key)
         IN [h |-> d.h, underflow |-> Len(d.h[n].keys) < MIN_KEYS, keyDeleted |-> d.found]
    ELSE LET i == DescendScan(h[n].keys, key)
             r == delete(h, h[n].children[i + 1], key)
         IN IF r.underflow
            THEN LET u == handleUnderflow(r.h, n, i)
                 IN [h |-> u.h, underflow |-> u.underflow, keyDeleted |-> r.keyDeleted]
            ELSE [h |-> r.h, underflow |-> FALSE, keyDeleted |-> r.keyDeleted]

\* A variant that never replaces the root.
DeleteKeepingRoot(t, key) ==
    IF t.nodes[t.root].isLeaf
    THEN LET d == deleteFromLeaf(t.nodes, t.root, key)
         IN [t |-> [root |-> t.root, nodes |-> d.h], ret |-> d.found]
    ELSE LET r == delete(t.nodes, t.root, key)
         IN [t |-> [root |-> t.root, nodes |-> r.h], ret |-> r.keyDeleted]

\* Delete returns the tree and the reported "was present" flag.
Delete(t, key) ==
    IF t.nodes[t.root].isLeaf
    THEN LET d == deleteFromLeaf(t.nodes, t.root, key)
         IN IF d.found /\ Len(d.h[t.root].keys) = 0
            THEN LET nr == NewId(d.h)
                 IN [t |-> [root |-> nr, nodes |-> (nr :> EmptyLeaf) @@ d.h], ret |-> TRUE]
            ELSE [t |-> [root |-> t.root, nodes |-> d.h], ret |-> d.found]
    ELSE LET r == delete(t.nodes, t.root, key)
             rt == r.h[t.root]
         IN IF r.underflow /\ Len(rt.keys) = 0
            THEN IF Len(rt.children) = 1
                 THEN [t |-> [root |-> rt.children[1], nodes |-> r.h], ret |-> r.keyDeleted]
                 ELSE IF Len(rt.children) = 0
                 THEN LET nr == NewId(r.h)
                      IN [t |-> [root |-> nr, nodes |-> (nr :> EmptyLeaf) @@ r.h],
                          ret |-> r.keyDeleted]
                 ELSE [t |-> [root |-> t.root, nodes |-> r.h], ret |-> r.keyDeleted]
            ELSE [t |-> [root |-> t.root, nodes |-> r.h], ret |-> r.keyDeleted]

\* -------------------------------------------------------------- range query
RECURSIVE LeftmostLeaf(_, _)
LeftmostLeaf(h, n) == IF h[n].isLeaf THEN n ELSE LeftmostLeaf(h, h[n].children[1])

\* The leaves met by following next from n until nil.
RECURSIVE Chain(_, _)
Chain(h, n) == IF n = Nil THEN <<>> ELSE <<n>> \o Chain(h, h[n].next)

\* The (key, value) pairs in the order the scan meets them.
RECURSIVE ChainEntries(_, _)
ChainEntries(h, c) ==
    IF c = <<>> THEN <<>>
    ELSE [i \in 1..Len(h[Head(c)].keys) |-> <<h[Head(c)].keys[i], h[Head(c)].values[i]>>]
         \o ChainEntries(h, Tail(c))

\* The result map: results[k] = v for each entry in range, a later entry of the
\* same key overwriting an earlier one.  A bound of 0 ("") is unbounded.
RangeQuery(t, startKey, endKey) ==
    LET es == ChainEntries(t.nodes, Chain(t.nodes, LeftmostLeaf(t.nodes, t.root)))
        in(i) == (startKey = 0 \/ es[i][1] >= startKey) /\ (endKey = 0 \/ es[i][1] <= endKey)
        hit == {i \in 1..Len(es) : in(i)}
    IN [k \in {es[i][1] : i \in hit} |->
          es[CHOOSE i \in hit : es[i][1] = k /\ \A j \in hit : es[j][1] = k => j <= i][2]]

\* -------------------------------------------------------- garbage collection
\* Nodes no pointer reaches are dropped and the rest renumbered in preorder:
\* a pointer's value is not observable, only the shape it gives the heap.
RECURSIVE Preorder(_, _)
RECURSIVE PreorderAll(_, _)
Preorder(h, n) == <<n>> \o PreorderAll(h, h[n].children)
PreorderAll(h, s) == IF s = <<>> THEN <<>> ELSE Preorder(h, Head(s)) \o PreorderAll(h, Tail(s))

RECURSIVE NextClosure(_, _)
NextClosure(h, S) ==
    LET S2 == S \cup ({h[n].next : n \in S} \ {Nil})
    IN IF S2 = S THEN S ELSE NextClosure(h, S2)

RECURSIVE SortedSeq(_)
SortedSeq(S) ==
    IF S = {} THEN <<>>
    ELSE LET m == CHOOSE x \in S : \A y \in S : x <= y IN <<m>> \o SortedSeq(S \ {m})

Normalize(t) ==
    LET pre == Preorder(t.nodes, t.root)
        inPre == {pre[i] : i \in 1..Len(pre)}
        order == pre \o SortedSeq(NextClosure(t.nodes, inPre) \ inPre)
        pos(id) == IF id = Nil THEN Nil ELSE CHOOSE i \in 1..Len(order) : order[i] = id
        move(nd) == [nd EXCEPT !.children = [i \in 1..Len(@) |-> pos(@[i])],
                               !.next = pos(@)]
    IN [root |-> 1, nodes |-> [i \in 1..Len(order) |-> move(t.nodes[order[i]])]]

\* ------------------------------------------------------ the index, driven
\* abs is the map the calls made so far describe: abs[k] is the value last
\* inserted for k, or 0 when k was never inserted or was deleted since.
TreeInit ==
    /\ tree = NewBPlusTree
    /\ abs = [k \in Keys |-> 0]
    /\ NoCallers
    /\ wal = <<>>
    /\ NoEngine

TInsert(k, v) ==
    /\ tree' = Normalize(Insert(tree, k, v))
    /\ Cardinality(DOMAIN tree'.nodes) <= MaxNodes
    /\ abs' = [abs EXCEPT ![k] = v]
    /\ UNCHANGED <<wal, engineVars, lockVars>>

TDelete(k) ==
    /\ tree' = Normalize(Delete(tree, k).t)
    /\ abs' = [abs EXCEPT ![k] = 0]
    /\ UNCHANGED <<wal, engineVars, lockVars>>

TreeNext ==
    \/ \E k \in Keys, v \in Vals : TInsert(k, v)
    \/ \E k \in Keys : TDelete(k)

TreeSpec == TreeInit /\ [][TreeNext]_vars

\* =================================================================== the WAL
\* The log file is the sequence of its lines, a line the sequence of its
\* space-separated fields, as fmt.Fprintf writes them and strings.Fields
\* splits them.  A transaction id of 0 is the empty string (autocommit).

\* ------------------------------------------------------------- Go map helpers
EmptyMap == <<>>
Has(m, k) == k \in DOMAIN m
Put(m, k, v) == [x \in DOMAIN m \cup {k} |-> IF x = k THEN v ELSE m[x]]
Del(m, k) == [x \in DOMAIN m \ {k} |-> m[x]]
\* m[k] or, when k is missing, a new empty inner map.
Sub(m, k) == IF Has(m, k) THEN m[k] ELSE EmptyMap
\* m[k] or, when k is missing, a new empty set (map[string]struct{}).
SubSet(m, k) == IF Has(m, k) THEN m[k] ELSE {}

\* The first n lines of the log.
Prefix(w, n) == SubSeq(w, 1, n)

\* ------------------------------------------------------------------- writers
WalAppend(w, txID, tableName, key, value) ==
    Append(w, IF txID = 0 THEN <<"SET", tableName, key, value>>
              ELSE <<"SET", txID, tableName, key, value>>)

WalDelete(w, txID, tableName, key) ==
    Append(w, IF txID = 0 THEN <<"DELETE", tableName, key>>
              ELSE <<"DELETE", txID, tableName, key>>)

WalDropTable(w, txID, tableName) ==
    Append(w, IF txID = 0 THEN <<"DROP", "TABLE", tableName>>
              ELSE <<"DROP", "TABLE", txID, tableName>>)

BeginTx(w, txID) == Append(w, <<"BEGIN_TX", txID>>)
CommitTx(w, txID) == Append(w, <<"COMMIT_TX", txID>>)
RollbackTx(w, txID) == Append(w, <<"ROLLBACK_TX", txID>>)

\* -------------------------------------------------------------------- replay
ReplayStart ==
    [tablesData |-> EmptyMap, activeTxChanges |-> EmptyMap,
     activeTxDeletes |-> EmptyMap, activeTxDroppedTables |-> EmptyMap]

\* A SET that takes effect at once, tagged or not.
ReplaySetUnbuffered(r, parts) ==
    IF Len(parts) = 5
    THEN [r EXCEPT !.tablesData =
             Put(@, parts[3], Put(Sub(@, parts[3]), parts[4], parts[5]))]
    ELSE IF Len(parts) = 4
    THEN [r EXCEPT !.tablesData =
             Put(@, parts[2], Put(Sub(@, parts[2]), parts[3], parts[4]))]
    ELSE r

\* case "SET"
ReplaySet(r, parts) ==
    IF Len(parts) = 5
    THEN LET txID == parts[2]
             tableName == parts[3]
             tx == Sub(r.activeTxChanges, txID)
         IN [r EXCEPT !.activeTxChanges =
                Put(@, txID, Put(tx, tableName, Put(Sub(tx, tableName), parts[4], parts[5])))]
    ELSE IF Len(parts) = 4
    THEN [r EXCEPT !.tablesData =
             Put(@, parts[2], Put(Sub(@, parts[2]), parts[3], parts[4]))]
    ELSE r

\* case "DELETE"
ReplayDelete(r, parts) ==
    IF Len(parts) = 4
    THEN LET txID == parts[2]
             tableName == parts[3]
             tx == Sub(r.activeTxDeletes, txID)
         IN [r EXCEPT !.activeTxDeletes =
                Put(@, txID, Put(tx, tableName, SubSet(tx, tableName) \cup {parts[4]}))]
    ELSE IF Len(parts) = 3
    THEN IF Has(r.tablesData, parts[2])
         THEN [r EXCEPT !.tablesData[parts[2]] = Del(@, parts[3])]
         ELSE r
    ELSE r

\* case "DROP"
ReplayDrop(r, parts) ==
    IF Len(parts) = 4 /\ parts[2] = "TABLE"
    THEN [r EXCEPT !.activeTxDroppedTables =
             Put(@, parts[3], SubSet(@, parts[3]) \cup {parts[4]})]
    ELSE IF Len(parts) = 3 /\ parts[2] = "TABLE"
    THEN [r EXCEPT !.tablesData = Del(@, parts[3])]
    ELSE r

\* for tableName, kvs := range changes { create the table if missing; put each k, v }
ApplyChanges(td, changes) ==
    [t \in DOMAIN td \cup DOMAIN changes |->
        IF Has(changes, t)
        THEN [k \in DOMAIN Sub(td, t) \cup DOMAIN changes[t] |->
                 IF Has(changes[t], k) THEN changes[t][k] ELSE td[t][k]]
        ELSE td[t]]

\* for tableName, keys := range deletes { if the table exists, delete each key }
ApplyDeletes(td, deletes) ==
    [t \in DOMAIN td |->
        IF Has(deletes, t) THEN [k \in DOMAIN td[t] \ deletes[t] |-> td[t][k]] ELSE td[t]]

\* for tableName := range drops { delete(tablesData, tableName) }
ApplyDrops(td, drops) == [t \in DOMAIN td \ drops |-> td[t]]

\* case "COMMIT_TX": the buffered changes, then the deletes, then the drops.
ReplayCommit(r, parts) ==
    IF Len(parts) = 2
    THEN LET txID == parts[2]
             td1 == IF Has(r.activeTxChanges, txID)
                    THEN ApplyChanges(r.tablesData, r.activeTxChanges[txID])
                    ELSE r.tablesData
             td2 == IF Has(r.activeTxDeletes, txID)
                    THEN ApplyDeletes(td1, r.activeTxDeletes[txID])
                    ELSE td1
             td3 == IF Has(r.activeTxDroppedTables, txID)
                    THEN ApplyDrops(td2, r.activeTxDroppedTables[txID])
                    ELSE td2
         IN [tablesData |-> td3,
             activeTxChanges |-> Del(r.activeTxChanges, txID),
             activeTxDeletes |-> Del(r.activeTxDeletes, txID),
             activeTxDroppedTables |-> Del(r.activeTxDroppedTables, txID)]
    ELSE r

\* A ROLLBACK_TX that applies the buffers it should discard.
ReplayRollbackApplying(r, parts) == ReplayCommit(r, parts)

\* case "ROLLBACK_TX"
ReplayRollback(r, parts) ==
    IF Len(parts) = 2
    THEN [r EXCEPT !.activeTxChanges = Del(@, parts[2]),
                   !.activeTxDeletes = Del(@, parts[2]),
                   !.activeTxDroppedTables = Del(@, parts[2])]
    ELSE r

\* One turn of the scanner loop: the switch on the line's first field.
ReplayLine(r, parts) ==
    IF Len(parts) = 0 THEN r
    ELSE CASE parts[1] = "SET" -> ReplaySet(r, parts)
           [] parts[1] = "DELETE" -> ReplayDelete(r, parts)
           [] parts[1] = "DROP" -> ReplayDrop(r, parts)
           [] parts[1] = "COMMIT_TX" -> ReplayCommit(r, parts)
           [] parts[1] = "ROLLBACK_TX" -> ReplayRollback(r, parts)
           [] OTHER -> r

RECURSIVE ReplayScan(_, _)
ReplayScan(r, lines) ==
    IF lines = <<>> THEN r ELSE ReplayScan(ReplayLine(r, Head(lines)), Tail(lines))

\* The result holds a table only if the table holds a key: the conversion
\* appends to result[tableName] once per key.  The order of a table's list
\* is the order of a Go map iteration, so the list is given as the map it
\* lists.
ReplayResult(td) == [t \in {x \in DOMAIN td : DOMAIN td[x] # {}} |-> td[t]]

Replay(w) == ReplayResult(ReplayScan(ReplayStart, w).tablesData)

\* --------------------------------------------------------- the log, driven
WalInit ==
    /\ wal = <<>>
    /\ tree = NewBPlusTree
    /\ abs = [k \in Keys |-> 0]
    /\ NoCallers
    /\ NoEngine

WAppend(txID, t, k, v) ==
    /\ Len(wal) < MaxLog
    /\ wal' = WalAppend(wal, txID, t, k, v)
    /\ UNCHANGED <<treeVars, engineVars, lockVars>>

WDelete(txID, t, k) ==
    /\ Len(wal) < MaxLog
    /\ wal' = WalDelete(wal, txID, t, k)
    /\ UNCHANGED <<treeVars, engineVars, lockVars>>

WDropTable(txID, t) ==
    /\ Len(wal) < MaxLog
    /\ wal' = WalDropTable(wal, txID, t)
    /\ UNCHANGED <<treeVars, engineVars, lockVars>>

WBeginTx(txID) ==
    /\ Len(wal) < MaxLog
    /\ wal' = BeginTx(wal, txID)
    /\ UNCHANGED <<treeVars, engineVars, lockVars>>

WCommitTx(txID) ==
    /\ Len(wal) < MaxLog
    /\ wal' = CommitTx(wal, txID)
    /\ UNCHANGED <<treeVars, engineVars, lockVars>>

WRollbackTx(txID) ==
    /\ Len(wal) < MaxLog
    /\ wal' = RollbackTx(wal, txID)
    /\ UNCHANGED <<treeVars, engineVars, lockVars>>

WalNext ==
    \/ \E x \in {0} \cup TxIds, t \in Tables, k \in WalKeys, v \in Vals : WAppend(x, t, k, v)
    \/ \E x \in {0} \cup TxIds, t \in Tables, k \in WalKeys : WDelete(x, t, k)
    \/ \E x \in {0} \cup TxIds, t \in Tables : WDropTable(x, t)
    \/ \E x \in TxIds : WBeginTx(x)
    \/ \E x \in TxIds : WCommitTx(x)
    \/ \E x \in TxIds : WRollbackTx(x)

WalSpec == WalInit /\ [][WalNext]_vars

\* ================================================================ the engine
\* F applied to the value of x.
With(x, F(_)) == CHOOSE y \in {F(v) : v \in {x}} : TRUE

\* The engine calls tree.Insert for a bool and tree.Update; the B+Tree
\* sources at hand have neither, so both follow the specification: INSERT
\* stores a key only if the index does not hold it, UPDATE changes only a
\* key the index holds.
InsertNew(t, key, value) ==
    IF Get(t, key).found THEN [t |-> t, ok |-> FALSE]
    ELSE [t |-> Insert(t, key, value), ok |-> TRUE]

Update(t, key, value) ==
    LET n == GetLeaf(t.nodes, t.root, key)
        nd == t.nodes[n]
        hits == {i \in 1..Len(nd.keys) : nd.keys[i] = key}
    IN IF hits = {} THEN [t |-> t, ok |-> FALSE]
       ELSE LET i == CHOOSE x \in hits : \A y \in hits : x <= y
            IN [t |-> [t EXCEPT !.nodes[n].values[i] = value], ok |-> TRUE]

\* The orders in which a Go range loop can visit the elements of S.
RECURSIVE Perms(_)
Perms(S) ==
    IF S = {} THEN {<<>>}
    ELSE UNION {{<<x>> \o p : p \in Perms(S \ {x})} : x \in S}

\* One visiting order of the keys of every table of m (table -> keys).
KeyOrders(m) ==
    {f \in [DOMAIN m -> UNION {Perms(m[t]) : t \in DOMAIN m}] :
        \A t \in DOMAIN m : f[t] \in Perms(m[t])}

KeySets(m) == [t \in DOMAIN m |-> DOMAIN m[t]]

\* Statement arguments: one or more key/value pairs or keys.
KVLists == UNION {[1..n -> [Key : WalKeys, Value : Vals]] : n \in 1..MaxStmt}
KeyLists == UNION {[1..n -> WalKeys] : n \in 1..MaxStmt}

\* for _, entry := range entries { tree.Insert(entry[0], entry[1]) }
RECURSIVE BuildTree(_, _, _)
BuildTree(t, kvs, order) ==
    IF order = <<>> THEN t
    ELSE With(InsertNew(t, Head(order), kvs[Head(order)]).t,
              LAMBDA t2 : BuildTree(t2, kvs, Tail(order)))

\* The table maps NewEngine can build from the log: one tree per table of
\* the replayed state, filled in the order of the replayed list.
NewEngine(w) ==
    LET tablesData == Replay(w)
    IN {[t \in DOMAIN tablesData |->
            Normalize(BuildTree(NewBPlusTree, tablesData[t], f[t]))] :
        f \in KeyOrders(KeySets(tablesData))}

EngineInit ==
    /\ wal = <<>>
    /\ tables \in NewEngine(wal)
    /\ currentTxID = 0
    /\ txChanges = EmptyMap
    /\ txDeletes = EmptyMap
    /\ txDroppedTables = {}
    /\ clock = 0
    /\ result = NoResult
    /\ tree = NewBPlusTree
    /\ abs = [k \in Keys |-> 0]
    /\ NoCallers

\* ------------------------------------------------------------ Idle: autocommit
\* One turn of the loop; st is the tree, the log and the count.
AutoInsertStep(st, table, kv) ==
    With(InsertNew(st.t, kv.Key, kv.Value), LAMBDA didInsert :
        [t |-> didInsert.t,
         w |-> IF didInsert.ok THEN WalAppend(st.w, 0, table, kv.Key, kv.Value) ELSE st.w,
         n |-> IF didInsert.ok THEN st.n + 1 ELSE st.n])

RECURSIVE AutoInsertLoop(_, _, _)
AutoInsertLoop(st, table, values) ==
    IF values = <<>> THEN st
    ELSE With(AutoInsertStep(st, table, Head(values)),
              LAMBDA s2 : AutoInsertLoop(s2, table, Tail(values)))

AutoInsert(table, values) ==
    /\ currentTxID = 0
    /\ \E r \in {AutoInsertLoop([t |-> IF Has(tables, table) THEN tables[table] ELSE NewBPlusTree,
                                w |-> wal, n |-> 0], table, values)} :
          /\ tables' = Put(tables, table, Normalize(r.t))
          /\ wal' = r.w
          /\ result' = IF r.n = 0 /\ Len(values) > 0
                       THEN Message("No new keys inserted (they might already exist)", 0)
                       ELSE Counted("Inserted %d key(s) into table '%s'", r.n, table)
    /\ UNCHANGED <<treeVars, lockVars, currentTxID, txChanges, txDeletes, txDroppedTables, clock>>

\* What Execute returns for a SELECT: the lines it prints, one row per line,
\* or a message.  A row "key: [txID] value" has Tx = txID, a row "key: value"
\* has Tx = 0.
Row(key, tx, value) == [Key |-> key, Tx |-> tx, Value |-> value]
Printed(rows) ==
    IF rows = <<>> THEN Message("No results", 0)
    ELSE [msg |-> "", table |-> 0, n |-> 0, tx |-> 0, rows |-> rows]

\* The rows of the keys asked for, in the order asked, or of every key of
\* data in sorted order when no key is named (SELECT *).
SelectRows(data, keys, txID) ==
    LET ks == IF keys # <<>> THEN keys ELSE SortedSeq(DOMAIN data)
    IN With(SelectSeq(ks, LAMBDA k : k \in DOMAIN data),
            LAMBDA hit : [i \in 1..Len(hit) |->
                Row(hit[i], IF data[hit[i]].FromTx THEN txID ELSE 0, data[hit[i]].Value)])

SelectResult(table, keys) ==
    IF ~Has(tables, table) THEN Message("Table '%s' not found", table)
    ELSE LET t == tables[table]
             found == IF keys # <<>>
                      THEN [k \in {keys[i] : i \in {j \in DOMAIN keys : Get(t, keys[j]).found}} |->
                               Get(t, k).value]
                      ELSE RangeQuery(t, 0, 0)
         IN With([k \in DOMAIN found |-> [Value |-> found[k], FromTx |-> FALSE]],
                 LAMBDA data : With(SelectRows(data, keys, 0), LAMBDA rows : Printed(rows)))

AutoSelect(table, keys) ==
    /\ currentTxID = 0
    /\ result' = SelectResult(table, keys)
    /\ UNCHANGED <<treeVars, lockVars, wal, tables, currentTxID, txChanges, txDeletes, txDroppedTables, clock>>

AutoDeleteStep(st, table, key) ==
    With(Delete(st.t, key), LAMBDA r :
        [t |-> r.t,
         w |-> IF r.ret THEN WalDelete(st.w, 0, table, key) ELSE st.w,
         n |-> IF r.ret THEN st.n + 1 ELSE st.n])

RECURSIVE AutoDeleteLoop(_, _, _)
AutoDeleteLoop(st, table, keys) ==
    IF keys = <<>> THEN st
    ELSE With(AutoDeleteStep(st, table, Head(keys)),
              LAMBDA s2 : AutoDeleteLoop(s2, table, Tail(keys)))

\* A DELETE that makes the table when it is not there, as INSERT does.
AutoDeleteCreating(table, keys) ==
    /\ currentTxID = 0
    /\ \E r \in {AutoDeleteLoop([t |-> IF Has(tables, table) THEN tables[table] ELSE NewBPlusTree,
                                w |-> wal, n |-> 0], table, keys)} :
          /\ tables' = Put(tables, table, Normalize(r.t))
          /\ wal' = r.w
          /\ result' = IF r.n > 0
                       THEN Counted("Deleted %d key(s) from table '%s'", r.n, table)
                       ELSE Message("No key(s) found to delete in table '%s'", table)
    /\ UNCHANGED <<treeVars, lockVars, currentTxID, txChanges, txDeletes, txDroppedTables, clock>>

AutoDelete(table, keys) ==
    /\ currentTxID = 0
    /\ IF ~Has(tables, table)
       THEN /\ result' = Message("Table '%s' not found", table)
            /\ UNCHANGED <<tables, wal>>
       ELSE \E r \in {AutoDeleteLoop([t |-> tables[table], w |-> wal, n |-> 0], table, keys)} :
               /\ tables' = Put(tables, table, Normalize(r.t))
               /\ wal' = r.w
               /\ result' = IF r.n > 0
                            THEN Counted("Deleted %d key(s) from table '%s'", r.n, table)
                            ELSE Message("No key(s) found to delete in table '%s'", table)
    /\ UNCHANGED <<treeVars, lockVars, currentTxID, txChanges, txDeletes, txDroppedTables, clock>>

\* A DROP that takes every table out of the table map.
AutoDropAll(table) ==
    /\ currentTxID = 0
    /\ IF ~Has(tables, table)
       THEN /\ result' = Message("Table '%s' not found", table)
            /\ UNCHANGED <<tables, wal>>
       ELSE /\ tables' = EmptyMap
            /\ wal' = WalDropTable(wal, 0, table)
            /\ result' = Message("Table '%s' dropped", table)
    /\ UNCHANGED <<treeVars, lockVars, currentTxID, txChanges, txDeletes, txDroppedTables, clock>>

AutoDrop(table) ==
    /\ currentTxID = 0
    /\ IF ~Has(tables, table)
       THEN /\ result' = Message("Table '%s' not found", table)
            /\ UNCHANGED <<tables, wal>>
       ELSE /\ tables' = Del(tables, table)
            /\ wal' = WalDropTable(wal, 0, table)
            /\ result' = Message("Table '%s' dropped", table)
    /\ UNCHANGED <<treeVars, lockVars, currentTxID, txChanges, txDeletes, txDroppedTables, clock>>

\* An UPDATE turn that stores the key whether or not the table holds it.
AutoUpdateStepUpsert(st, table, kv) ==
    [t |-> Insert(st.t, kv.Key, kv.Value),
     w |-> WalAppend(st.w, 0, table, kv.Key, kv.Value),
     n |-> st.n + 1]

AutoUpdateStep(st, table, kv) ==
    With(Update(st.t, kv.Key, kv.Value), LAMBDA r :
        [t |-> r.t,
         w |-> IF r.ok THEN WalAppend(st.w, 0, table, kv.Key, kv.Value) ELSE st.w,
         n |-> IF r.ok THEN st.n + 1 ELSE st.n])

RECURSIVE AutoUpdateLoop(_, _, _)
AutoUpdateLoop(st, table, values) ==
    IF values = <<>> THEN st
    ELSE With(AutoUpdateStep(st, table, Head(values)),
              LAMBDA s2 : AutoUpdateLoop(s2, table, Tail(values)))

AutoUpdate(table, values) ==
    /\ currentTxID = 0
    /\ IF ~Has(tables, table)
       THEN /\ result' = Message("Table '%s' not found", table)
            /\ UNCHANGED <<tables, wal>>
       ELSE \E r \in {AutoUpdateLoop([t |-> tables[table], w |-> wal, n |-> 0], table, values)} :
               /\ tables' = Put(tables, table, Normalize(r.t))
               /\ wal' = r.w
               /\ result' = IF r.n > 0
                            THEN Counted("Updated %d key(s) in table '%s'", r.n, table)
                            ELSE Message("No keys found to update", 0)
    /\ UNCHANGED <<treeVars, lockVars, currentTxID, txChanges, txDeletes, txDroppedTables, clock>>

\* -------------------------------------------------- Active: buffered in overlay
ExistsInMain(table, key) == Has(tables, table) /\ Get(tables[table], key).found

\* Loop state: ch is txChanges[table], dl is txDeletes.
RECURSIVE TxInsertLoop(_, _, _, _)
TxInsertLoop(ch, dl, table, values) ==
    IF values = <<>> THEN [ch |-> ch, dl |-> dl]
    ELSE LET kv == Head(values)
         IN TxInsertLoop(Put(ch, kv.Key, kv.Value),
                         IF Has(dl, table) THEN [dl EXCEPT ![table] = @ \ {kv.Key}] ELSE dl,
                         table, Tail(values))

\* An INSERT inside a transaction that buffers its keys whether or not the
\* table is marked for drop.
TxInsertUnguarded(table, values) ==
    /\ currentTxID # 0
    /\ \E r \in {TxInsertLoop(Sub(txChanges, table), txDeletes, table, values)} :
          /\ txChanges' = Put(txChanges, table, r.ch)
          /\ txDeletes' = r.dl
          /\ result' = Counted("Buffered %d key(s) for insert/update into table '%s'", Len(values), table)
    /\ UNCHANGED <<treeVars, lockVars, wal, tables, currentTxID, txDroppedTables, clock>>

TxInsert(table, values) ==
    /\ currentTxID # 0
    /\ IF table \in txDroppedTables
       THEN /\ result' = Message("Table '%s' marked for drop within this transaction, cannot insert into it", table)
            /\ UNCHANGED <<txChanges, txDeletes>>
       ELSE \E r \in {TxInsertLoop(Sub(txChanges, table), txDeletes, table, values)},
               \* every branch of the loop body counts the key
               insertedOrUpdatedCount \in {Len(values)} :
               /\ txChanges' = Put(txChanges, table, r.ch)
               /\ txDeletes' = r.dl
               /\ result' = IF insertedOrUpdatedCount = 0 /\ Len(values) > 0
                            THEN Message("No new keys inserted or values updated (they might already exist with the same value)", 0)
                            ELSE Counted("Buffered %d key(s) for insert/update into table '%s'", Len(values), table)
    /\ UNCHANGED <<treeVars, lockVars, wal, tables, currentTxID, txDroppedTables, clock>>

\* combinedData that keeps the keys the transaction has deleted.
CombinedDataKeepingDeleted(table) ==
    LET allKeysValues == IF Has(tables, table) THEN RangeQuery(tables[table], 0, 0) ELSE EmptyMap
        txKVs == Sub(txChanges, table)
    IN [k \in (DOMAIN allKeysValues) \cup DOMAIN txKVs |->
          IF k \in DOMAIN txKVs THEN [Value |-> txKVs[k], FromTx |-> TRUE]
          ELSE [Value |-> allKeysValues[k], FromTx |-> FALSE]]

\* combinedData: the live index's entries, less the buffered deletes, under
\* the buffered changes.
CombinedData(table) ==
    LET allKeysValues == IF Has(tables, table) THEN RangeQuery(tables[table], 0, 0) ELSE EmptyMap
        delKeys == SubSet(txDeletes, table)
        txKVs == Sub(txChanges, table)
    IN [k \in ((DOMAIN allKeysValues) \ delKeys) \cup DOMAIN txKVs |->
          IF k \in DOMAIN txKVs THEN [Value |-> txKVs[k], FromTx |-> TRUE]
          ELSE [Value |-> allKeysValues[k], FromTx |-> FALSE]]

\* An in-transaction SELECT that does not look at the drop marks.
TxSelectResultLive(table, keys) ==
    With(CombinedData(table),
         LAMBDA data : With(SelectRows(data, keys, currentTxID), LAMBDA rows : Printed(rows)))

TxSelectResult(table, keys) ==
    IF table \in txDroppedTables THEN Message("Table '%s' dropped within this transaction", table)
    ELSE With(CombinedData(table),
              LAMBDA data : With(SelectRows(data, keys, currentTxID), LAMBDA rows : Printed(rows)))

TxSelect(table, keys) ==
    /\ currentTxID # 0
    /\ result' = TxSelectResult(table, keys)
    /\ UNCHANGED <<treeVars, lockVars, wal, tables, currentTxID, txChanges, txDeletes, txDroppedTables, clock>>

\* Loop state: ch is txChanges, dl is txDeletes[table], n is deletedCount.
RECURSIVE TxDeleteLoop(_, _, _, _, _)
TxDeleteLoop(ch, dl, n, table, keys) ==
    IF keys = <<>> THEN [ch |-> ch, dl |-> dl, n |-> n]
    ELSE LET key == Head(keys)
             existsInTxChanges == Has(ch, table) /\ Has(ch[table], key)
         IN IF ExistsInMain(table, key) \/ existsInTxChanges
            THEN TxDeleteLoop(IF existsInTxChanges THEN [ch EXCEPT ![table] = Del(@, key)] ELSE ch,
                              dl \cup {key}, n + 1, table, Tail(keys))
            ELSE TxDeleteLoop(ch, dl, n, table, Tail(keys))

\* A DELETE inside a transaction that does not look at the drop marks.
TxDeleteUnguarded(table, keys) ==
    /\ currentTxID # 0
    /\ IF ~Has(tables, table) /\ ~Has(txChanges, table)
       THEN /\ result' = Message("Table '%s' not found", table)
            /\ UNCHANGED <<txChanges, txDeletes>>
       ELSE \E r \in {TxDeleteLoop(txChanges, SubSet(txDeletes, table), 0, table, keys)} :
               /\ txChanges' = r.ch
               /\ txDeletes' = Put(txDeletes, table, r.dl)
               /\ result' = IF r.n > 0
                            THEN Counted("Buffered %d key(s) for deletion from table '%s'", r.n, table)
                            ELSE Message("No key(s) found to delete in table '%s'", table)
    /\ UNCHANGED <<treeVars, lockVars, wal, tables, currentTxID, txDroppedTables, clock>>

TxDelete(table, keys) ==
    /\ currentTxID # 0
    /\ IF table \in txDroppedTables
       THEN /\ result' = Message("Table '%s' marked for drop within this transaction, cannot delete from it", table)
            /\ UNCHANGED <<txChanges, txDeletes>>
       ELSE IF ~Has(tables, table) /\ ~Has(txChanges, table)
       THEN /\ result' = Message("Table '%s' not found", table)
            /\ UNCHANGED <<txChanges, txDeletes>>
       ELSE \E r \in {TxDeleteLoop(txChanges, SubSet(txDeletes, table), 0, table, keys)} :
               /\ txChanges' = r.ch
               /\ txDeletes' = Put(txDeletes, table, r.dl)
               /\ result' = IF r.n > 0
                            THEN Counted("Buffered %d key(s) for deletion from table '%s'", r.n, table)
                            ELSE Message("No key(s) found to delete in table '%s'", table)
    /\ UNCHANGED <<treeVars, lockVars, wal, tables, currentTxID, txDroppedTables, clock>>

\* A DROP TABLE inside a transaction that drops the live index at once.
TxDropLive(table) ==
    /\ currentTxID # 0
    /\ IF ~Has(tables, table) /\ ~Has(txChanges, table)
       THEN /\ result' = Message("Table '%s' not found", table)
            /\ UNCHANGED <<tables, txChanges, txDeletes, txDroppedTables>>
       ELSE /\ tables' = Del(tables, table)
            /\ txDroppedTables' = txDroppedTables \cup {table}
            /\ txChanges' = Del(txChanges, table)
            /\ txDeletes' = Del(txDeletes, table)
            /\ result' = Message("Buffered DROP for table '%s'", table)
    /\ UNCHANGED <<treeVars, lockVars, wal, currentTxID, clock>>

TxDrop(table) ==
    /\ currentTxID # 0
    /\ IF ~Has(tables, table) /\ ~Has(txChanges, table)
       THEN /\ result' = Message("Table '%s' not found", table)
            /\ UNCHANGED <<txChanges, txDeletes, txDroppedTables>>
       ELSE /\ txDroppedTables' = txDroppedTables \cup {table}
            /\ txChanges' = Del(txChanges, table)
            /\ txDeletes' = Del(txDeletes, table)
            /\ result' = Message("Buffered DROP for table '%s'", table)
    /\ UNCHANGED <<treeVars, lockVars, wal, tables, currentTxID, clock>>

\* A variant that passes over the keys with a pending delete.
RECURSIVE TxUpdateLoopVisible(_, _, _, _, _)
TxUpdateLoopVisible(ch, dl, n, table, values) ==
    IF values = <<>> THEN [ch |-> ch, dl |-> dl, n |-> n]
    ELSE LET kv == Head(values)
             existsInTxChanges == Has(ch, kv.Key)
             existsInTxDeletes == Has(dl, table) /\ kv.Key \in dl[table]
         IN IF (ExistsInMain(table, kv.Key) \/ existsInTxChanges) /\ ~existsInTxDeletes
            THEN TxUpdateLoopVisible(Put(ch, kv.Key, kv.Value), dl, n + 1, table, Tail(values))
            ELSE TxUpdateLoopVisible(ch, dl, n, table, Tail(values))

\* Loop state: ch is txChanges[table], dl is txDeletes, n is updatedCount.
RECURSIVE TxUpdateLoop(_, _, _, _, _)
TxUpdateLoop(ch, dl, n, table, values) ==
    IF values = <<>> THEN [ch |-> ch, dl |-> dl, n |-> n]
    ELSE LET kv == Head(values)
             existsInTxChanges == Has(ch, kv.Key)
             existsInTxDeletes == Has(dl, table) /\ kv.Key \in dl[table]
         IN IF ExistsInMain(table, kv.Key) \/ existsInTxChanges \/ existsInTxDeletes
            THEN TxUpdateLoop(Put(ch, kv.Key, kv.Value),
                              IF existsInTxDeletes THEN [dl EXCEPT ![table] = @ \ {kv.Key}] ELSE dl,
                              n + 1, table, Tail(values))
            ELSE TxUpdateLoop(ch, dl, n, table, Tail(values))

\* An UPDATE inside a transaction that logs a tagged SET as it buffers.
TxUpdateLogged(table, values) ==
    /\ currentTxID # 0
    /\ IF table \in txDroppedTables
       THEN /\ result' = Message("Table '%s' marked for drop within this transaction, cannot update it", table)
            /\ UNCHANGED <<txChanges, txDeletes, wal>>
       ELSE IF ~Has(tables, table) /\ ~Has(txChanges, table)
       THEN /\ result' = Message("Table '%s' not found", table)
            /\ UNCHANGED <<txChanges, txDeletes, wal>>
       ELSE \E r \in {TxUpdateLoop(Sub(txChanges, table), txDeletes, 0, table, values)} :
               /\ txChanges' = Put(txChanges, table, r.ch)
               /\ txDeletes' = r.dl
               /\ wal' = IF r.n > 0
                         THEN WalAppend(wal, currentTxID, table, Head(values).Key, Head(values).Value)
                         ELSE wal
               /\ result' = IF r.n > 0
                            THEN Counted("Buffered %d key(s) for update in table '%s'", r.n, table)
                            ELSE Message("No keys found to update", 0)
    /\ UNCHANGED <<treeVars, lockVars, tables, currentTxID, txDroppedTables, clock>>

TxUpdate(table, values) ==
    /\ currentTxID # 0
    /\ IF table \in txDroppedTables
       THEN /\ result' = Message("Table '%s' marked for drop within this transaction, cannot update it", table)
            /\ UNCHANGED <<txChanges, txDeletes>>
       ELSE IF ~Has(tables, table) /\ ~Has(txChanges, table)
       THEN /\ result' = Message("Table '%s' not found", table)
            /\ UNCHANGED <<txChanges, txDeletes>>
       ELSE \E r \in {TxUpdateLoop(Sub(txChanges, table), txDeletes, 0, table, values)} :
               /\ txChanges' = Put(txChanges, table, r.ch)
               /\ txDeletes' = r.dl
               /\ result' = IF r.n > 0
                            THEN Counted("Buffered %d key(s) for update in table '%s'", r.n, table)
                            ELSE Message("No keys found to update", 0)
    /\ UNCHANGED <<treeVars, lockVars, wal, tables, currentTxID, txDroppedTables, clock>>

\* ------------------------------------------------- BEGIN, COMMIT, ROLLBACK
\* A BEGIN that starts a transaction whether or not one is active.
BeginAnyway ==
    /\ clock < NumTx
    /\ clock' = clock + 1
    /\ currentTxID' = clock'
    /\ txChanges' = EmptyMap
    /\ txDeletes' = EmptyMap
    /\ txDroppedTables' = {}
    /\ wal' = BeginTx(wal, currentTxID')
    /\ result' = TxMessage("Transaction started: %s", currentTxID')
    /\ UNCHANGED <<treeVars, lockVars, tables>>

\* The id is tx_<time.Now().UnixNano()>: the clock has advanced since the
\* last BEGIN, so the id is new.
Begin ==
    /\ IF currentTxID # 0
       THEN /\ result' = Message("Error: A transaction is already active. Commit or rollback the current transaction first.", 0)
            /\ UNCHANGED <<wal, currentTxID, txChanges, txDeletes, txDroppedTables, clock>>
       ELSE /\ clock < NumTx
            /\ clock' = clock + 1
            /\ currentTxID' = clock'
            /\ txChanges' = EmptyMap
            /\ txDeletes' = EmptyMap
            /\ txDroppedTables' = {}
            /\ wal' = BeginTx(wal, currentTxID')
            /\ result' = TxMessage("Transaction started: %s", currentTxID')
    /\ UNCHANGED <<treeVars, lockVars, tables>>

\* The commit path up to, not including, CommitTx.  st is the table map
\* and the log so far; each loop runs in one of the orders a range loop can
\* take.
RECURSIVE CommitDrops(_, _, _)
CommitDrops(st, txID, order) ==
    IF order = <<>> THEN st
    ELSE With([tb |-> Del(st.tb, Head(order)), w |-> WalDropTable(st.w, txID, Head(order))],
              LAMBDA s2 : CommitDrops(s2, txID, Tail(order)))

\* One key of one table, stored only if the index does not hold the key.
CommitChangeInsertOnly(st, txID, tableName, key, value) ==
    [tb |-> Put(st.tb, tableName, Normalize(InsertNew(st.tb[tableName], key, value).t)),
     w |-> WalAppend(st.w, txID, tableName, key, value)]

\* One key of one table: Update if the index holds the key, else Insert.
CommitChange(st, txID, tableName, key, value) ==
    LET t == st.tb[tableName]
        t2 == IF Get(t, key).found THEN Update(t, key, value).t
              ELSE InsertNew(t, key, value).t
    IN [tb |-> Put(st.tb, tableName, Normalize(t2)),
        w |-> WalAppend(st.w, txID, tableName, key, value)]

RECURSIVE CommitTableChanges(_, _, _, _, _)
CommitTableChanges(st, txID, tableName, kvs, order) ==
    IF order = <<>> THEN st
    ELSE With(CommitChange(st, txID, tableName, Head(order), kvs[Head(order)]),
              LAMBDA s2 : CommitTableChanges(s2, txID, tableName, kvs, Tail(order)))

RECURSIVE CommitChanges(_, _, _, _, _)
CommitChanges(st, txID, changes, tableOrder, keyOrder) ==
    IF tableOrder = <<>> THEN st
    ELSE LET tableName == Head(tableOrder)
             st1 == IF Has(st.tb, tableName) THEN st
                    ELSE [st EXCEPT !.tb = Put(@, tableName, NewBPlusTree)]
         IN With(CommitTableChanges(st1, txID, tableName, changes[tableName], keyOrder[tableName]),
                 LAMBDA s2 : CommitChanges(s2, txID, changes, Tail(tableOrder), keyOrder))

CommitDelete(st, txID, tableName, key) ==
    With(Delete(st.tb[tableName], key), LAMBDA r :
        [tb |-> Put(st.tb, tableName, Normalize(r.t)),
         w |-> IF r.ret THEN WalDelete(st.w, txID, tableName, key) ELSE st.w])

RECURSIVE CommitTableDeletes(_, _, _, _)
CommitTableDeletes(st, txID, tableName, order) ==
    IF order = <<>> THEN st
    ELSE With(CommitDelete(st, txID, tableName, Head(order)),
              LAMBDA s2 : CommitTableDeletes(s2, txID, tableName, Tail(order)))

RECURSIVE CommitDeletes(_, _, _, _)
CommitDeletes(st, txID, tableOrder, keyOrder) ==
    IF tableOrder = <<>> THEN st
    ELSE LET tableName == Head(tableOrder)
         IN With(IF Has(st.tb, tableName)
                 THEN CommitTableDeletes(st, txID, tableName, keyOrder[tableName])
                 ELSE st,
                 LAMBDA s2 : CommitDeletes(s2, txID, Tail(tableOrder), keyOrder))

\* The states in which the commit path can reach its CommitTx call.
CommitRuns ==
    {With(CommitDrops([tb |-> tables, w |-> wal], currentTxID, ds),
       LAMBDA s1 : With(CommitChanges(s1, currentTxID, txChanges, ct, ck),
         LAMBDA s2 : CommitDeletes(s2, currentTxID, dt, dk))) :
        ds \in Perms(txDroppedTables),
        ct \in Perms(DOMAIN txChanges), ck \in KeyOrders(KeySets(txChanges)),
        dt \in Perms(DOMAIN txDeletes), dk \in KeyOrders(txDeletes)}

\* A COMMIT that appends COMMIT_TX before the records of the transaction.
CommitTerminatorFirst ==
    /\ IF currentTxID = 0
       THEN /\ result' = Message("Error: No active transaction to commit.", 0)
            /\ UNCHANGED <<wal, tables, currentTxID, txChanges, txDeletes, txDroppedTables>>
       ELSE /\ \E r \in CommitRuns :
                 /\ tables' = r.tb
                 /\ wal' = CommitTx(wal, currentTxID) \o SubSeq(r.w, Len(wal) + 1, Len(r.w))
            /\ currentTxID' = 0
            /\ txChanges' = EmptyMap
            /\ txDeletes' = EmptyMap
            /\ txDroppedTables' = {}
            /\ result' = TxMessage("Transaction %s committed.", currentTxID)
    /\ UNCHANGED <<treeVars, lockVars, clock>>

Commit ==
    /\ IF currentTxID = 0
       THEN /\ result' = Message("Error: No active transaction to commit.", 0)
            /\ UNCHANGED <<wal, tables, currentTxID, txChanges, txDeletes, txDroppedTables>>
       ELSE /\ \E r \in CommitRuns :
                 /\ tables' = r.tb
                 /\ wal' = CommitTx(r.w, currentTxID)
            /\ currentTxID' = 0
            /\ txChanges' = EmptyMap
            /\ txDeletes' = EmptyMap
            /\ txDroppedTables' = {}
            /\ result' = TxMessage("Transaction %s committed.", currentTxID)
    /\ UNCHANGED <<treeVars, lockVars, clock>>

\* A ROLLBACK that does not ask whether a transaction is active.
RollbackAnyway ==
    /\ currentTxID' = 0
    /\ txChanges' = EmptyMap
    /\ txDeletes' = EmptyMap
    /\ txDroppedTables' = {}
    /\ wal' = RollbackTx(wal, currentTxID)
    /\ result' = TxMessage("Transaction %s rolled back.", currentTxID)
    /\ UNCHANGED <<treeVars, lockVars, tables, clock>>

Rollback ==
    /\ IF currentTxID = 0
       THEN /\ result' = Message("Error: No active transaction to rollback.", 0)
            /\ UNCHANGED <<wal, currentTxID, txChanges, txDeletes, txDroppedTables>>
       ELSE /\ currentTxID' = 0
            /\ txChanges' = EmptyMap
            /\ txDeletes' = EmptyMap
            /\ txDroppedTables' = {}
            /\ wal' = RollbackTx(wal, currentTxID)
            /\ result' = TxMessage("Transaction %s rolled back.", currentTxID)
    /\ UNCHANGED <<treeVars, lockVars, tables, clock>>

\* ------------------------------------------------------- stop and NewEngine
\* The process stops between two Execute calls and a new engine is built
\* from the log.
Restart ==
    /\ tables' \in NewEngine(wal)
    /\ currentTxID' = 0
    /\ txChanges' = EmptyMap
    /\ txDeletes' = EmptyMap
    /\ txDroppedTables' = {}
    /\ result' = NoResult
    /\ UNCHANGED <<treeVars, lockVars, wal, clock>>

\* The process stops inside the commit path, after it has appended one or
\* more of its records and before CommitTx, and a new engine is built from
\* the log.
CommitCrash ==
    /\ currentTxID # 0
    /\ \E r \in CommitRuns : \E n \in 1..(Len(r.w) - Len(wal)) :
          wal' = Prefix(r.w, Len(wal) + n)
    /\ tables' \in NewEngine(wal')
    /\ currentTxID' = 0
    /\ txChanges' = EmptyMap
    /\ txDeletes' = EmptyMap
    /\ txDroppedTables' = {}
    /\ result' = NoResult
    /\ UNCHANGED <<treeVars, lockVars, clock>>

\* Single-statement inputs over a set of keys.
KVListsOver(ks) == UNION {[1..n -> [Key : ks, Value : Vals]] : n \in 1..MaxStmt}
KeyListsOver(ks) == UNION {[1..n -> ks] : n \in 1..MaxStmt}

\* The keys of a SELECT: none (SELECT *) or some.
SelectLists == {<<>>} \cup KeyLists

\* A run is cut when the log would grow beyond max lines.
LogFits(max) == Len(wal') <= max

EngineNext ==
    \/ \E t \in Tables, kvs \in KVLists : AutoInsert(t, kvs) /\ LogFits(MaxEngineLog)
    \/ \E t \in Tables, ks \in SelectLists : AutoSelect(t, ks)
    \/ \E t \in Tables, ks \in SelectLists : TxSelect(t, ks)
    \/ \E t \in Tables, ks \in KeyLists : AutoDelete(t, ks) /\ LogFits(MaxEngineLog)
    \/ \E t \in Tables : AutoDrop(t) /\ LogFits(MaxEngineLog)
    \/ \E t \in Tables, kvs \in KVLists : AutoUpdate(t, kvs) /\ LogFits(MaxEngineLog)
    \/ \E t \in Tables, kvs \in KVLists : TxInsert(t, kvs)
    \/ \E t \in Tables, ks \in KeyLists : TxDelete(t, ks)
    \/ \E t \in Tables : TxDrop(t)
    \/ \E t \in Tables, kvs \in KVLists : TxUpdate(t, kvs)
    \/ Begin /\ LogFits(MaxEngineLog)
    \/ Commit /\ LogFits(MaxEngineLog)
    \/ Rollback /\ LogFits(MaxEngineLog)
    \/ Restart
    \/ CommitCrash /\ LogFits(MaxEngineLog)

EngineSpec == EngineInit /\ [][EngineNext]_vars

\* ------------------------------------------- the engine on an index that split
\* A table that has held four keys: INSERT 1, 2, 3, 4 splits the root leaf
\* with 3 as the separator; DELETE 3 and INSERT 3 follow.
\* The statements that follow name the separator or the key after it.
DeepKeys == {3, 4}
DeepTable == 1
DeepHistory ==
    LET kv(k) == [Key |-> k, Value |-> 1]
    IN With(AutoInsertLoop([t |-> NewBPlusTree, w |-> <<>>, n |-> 0], DeepTable,
                           <<kv(1), kv(2), kv(3), kv(4)>>),
         LAMBDA h1 : With(AutoDeleteLoop(h1, DeepTable, <<3>>),
           LAMBDA h2 : AutoInsertLoop(h2, DeepTable, <<kv(3)>>)))

DeepInit ==
    /\ wal = DeepHistory.w
    /\ tables = (DeepTable :> Normalize(DeepHistory.t))
    /\ currentTxID = 0
    /\ txChanges = EmptyMap
    /\ txDeletes = EmptyMap
    /\ txDroppedTables = {}
    /\ clock = 0
    /\ result = NoResult
    /\ tree = NewBPlusTree
    /\ abs = [k \in Keys |-> 0]
    /\ NoCallers

DeepNext ==
    \/ \E t \in Tables, kvs \in KVListsOver(DeepKeys) : AutoInsert(t, kvs) /\ LogFits(MaxDeepLog)
    \/ \E t \in Tables, ks \in {<<>>} \cup KeyListsOver(DeepKeys) : AutoSelect(t, ks)
    \/ \E t \in Tables, ks \in {<<>>} \cup KeyListsOver(DeepKeys) : TxSelect(t, ks)
    \/ \E t \in Tables, ks \in KeyListsOver(DeepKeys) : AutoDelete(t, ks) /\ LogFits(MaxDeepLog)
    \/ \E t \in Tables : AutoDrop(t) /\ LogFits(MaxDeepLog)
    \/ \E t \in Tables, kvs \in KVListsOver(DeepKeys) : AutoUpdate(t, kvs) /\ LogFits(MaxDeepLog)
    \/ \E t \in Tables, kvs \in KVListsOver(DeepKeys) : TxInsert(t, kvs)
    \/ \E t \in Tables, ks \in KeyListsOver(DeepKeys) : TxDelete(t, ks)
    \/ \E t \in Tables : TxDrop(t)
    \/ \E t \in Tables, kvs \in KVListsOver(DeepKeys) : TxUpdate(t, kvs)
    \/ Begin /\ LogFits(MaxDeepLog)
    \/ Commit /\ LogFits(MaxDeepLog)
    \/ Rollback /\ LogFits(MaxDeepLog)
    \/ Restart
    \/ CommitCrash /\ LogFits(MaxDeepLog)

EngineDeepSpec == DeepInit /\ [][DeepNext]_vars

\* ------------------------------------------------ the engine with two tables
\* Autocommit statements on tableA and tableB, which can hold the same keys.
MultipleTables == {1, 2}

MultipleNext ==
    \/ \E t \in MultipleTables, kvs \in KVLists : AutoInsert(t, kvs) /\ LogFits(MaxMultipleLog)
    \/ \E t \in MultipleTables, ks \in SelectLists : AutoSelect(t, ks)
    \/ \E t \in MultipleTables, ks \in KeyLists : AutoDelete(t, ks) /\ LogFits(MaxMultipleLog)
    \/ \E t \in MultipleTables : AutoDrop(t) /\ LogFits(MaxMultipleLog)
    \/ \E t \in MultipleTables, kvs \in KVLists : AutoUpdate(t, kvs) /\ LogFits(MaxMultipleLog)

EngineMultipleSpec == EngineInit /\ [][MultipleNext]_vars

\* ------------------------------------------------- Execute under the mutex
\* Callers run Execute at the same time.  Execute locks e.mu, runs the
\* statement, which appends its records to the log one by one, and unlocks
\* e.mu as it returns.  The statements are autocommit INSERTs and DELETEs of
\* up to MaxLockStmt keys.
LockStatements ==
    [kind : {"INSERT"}, table : Tables,
     values : UNION {[1..n -> [Key : WalKeys, Value : Vals]] : n \in 1..MaxLockStmt}]
      \cup [kind : {"DELETE"}, table : Tables,
            keys : UNION {[1..n -> WalKeys] : n \in 1..MaxLockStmt}]

\* What executeAutocommit does with the statement on table map tb: the new
\* table map, the records it appends and what it returns.
ExecuteAutocommit(tb, stmt) ==
    IF stmt.kind = "INSERT"
    THEN With(AutoInsertLoop([t |-> IF Has(tb, stmt.table) THEN tb[stmt.table] ELSE NewBPlusTree,
                              w |-> <<>>, n |-> 0], stmt.table, stmt.values),
              LAMBDA r : [tb |-> Put(tb, stmt.table, Normalize(r.t)),
                          recs |-> r.w,
                          res |-> IF r.n = 0 /\ Len(stmt.values) > 0
                                  THEN Message("No new keys inserted (they might already exist)", 0)
                                  ELSE Counted("Inserted %d key(s) into table '%s'", r.n, stmt.table)])
    ELSE IF ~Has(tb, stmt.table)
    THEN [tb |-> tb, recs |-> <<>>, res |-> Message("Table '%s' not found", stmt.table)]
    ELSE With(AutoDeleteLoop([t |-> tb[stmt.table], w |-> <<>>, n |-> 0], stmt.table, stmt.keys),
              LAMBDA r : [tb |-> Put(tb, stmt.table, Normalize(r.t)),
                          recs |-> r.w,
                          res |-> IF r.n > 0
                                  THEN Counted("Deleted %d key(s) from table '%s'", r.n, stmt.table)
                                  ELSE Message("No key(s) found to delete in table '%s'", stmt.table)])

\* Caller p calls Execute and comes to e.mu.Lock().
Call(p) ==
    /\ calls[p].pc = "idle"
    /\ tickets + Cardinality({q \in Callers : calls[q].pc = "lock"}) < MaxCalls
    /\ calls' = [calls EXCEPT ![p].pc = "lock"]
    /\ UNCHANGED <<treeVars, wal, engineVars, mu, tickets, writers>>

\* e.mu.Lock() that returns at once, whoever holds the mutex.
LockFree(p) ==
    /\ calls[p].pc = "lock"
    /\ mu' = p
    /\ tickets' = tickets + 1
    /\ calls' = [calls EXCEPT ![p].pc = "run", ![p].ticket = tickets']
    /\ UNCHANGED <<treeVars, wal, engineVars, writers>>

\* e.mu.Lock() returns: the mutex was free and p holds it now.
Lock(p) ==
    /\ calls[p].pc = "lock"
    /\ mu = 0
    /\ mu' = p
    /\ tickets' = tickets + 1
    /\ calls' = [calls EXCEPT ![p].pc = "run", ![p].ticket = tickets']
    /\ UNCHANGED <<treeVars, wal, engineVars, writers>>

\* p runs its statement on the table map; the records are still to append.
Run(p, stmt) ==
    /\ calls[p].pc = "run"
    /\ currentTxID = 0
    /\ \E r \in {ExecuteAutocommit(tables, stmt)} :
          /\ tables' = r.tb
          /\ result' = r.res
          /\ calls' = [calls EXCEPT ![p].pc = "write", ![p].todo = r.recs]
    /\ UNCHANGED <<treeVars, wal, currentTxID, txChanges, txDeletes, txDroppedTables, clock,
                   mu, tickets, writers>>

\* p appends its next record to the log.
Write(p) ==
    /\ calls[p].pc = "write"
    /\ calls[p].todo # <<>>
    /\ wal' = Append(wal, Head(calls[p].todo))
    /\ writers' = Append(writers, calls[p].ticket)
    /\ calls' = [calls EXCEPT ![p].todo = Tail(@)]
    /\ UNCHANGED <<treeVars, engineVars, mu, tickets>>

\* defer e.mu.Unlock(): Execute returns.
Unlock(p) ==
    /\ calls[p].pc = "write"
    /\ calls[p].todo = <<>>
    /\ mu' = 0
    /\ calls' = [calls EXCEPT ![p].pc = "idle"]
    /\ UNCHANGED <<treeVars, wal, engineVars, tickets, writers>>

LockNext ==
    \E p \in Callers :
        \/ Call(p)
        \/ Lock(p)
        \/ \E stmt \in LockStatements : Run(p, stmt)
        \/ Write(p)
        \/ Unlock(p)

EngineLockSpec == EngineInit /\ [][LockNext]_vars

\* --------------------------------------------- one engine, Execute calls only
\* The statements handed to Execute of one engine that is never stopped.
ExecuteNext ==
    \/ \E t \in Tables, kvs \in KVLists : AutoInsert(t, kvs) /\ LogFits(MaxEngineLog)
    \/ \E t \in Tables, ks \in SelectLists : AutoSelect(t, ks)
    \/ \E t \in Tables, ks \in SelectLists : TxSelect(t, ks)
    \/ \E t \in Tables, ks \in KeyLists : AutoDelete(t, ks) /\ LogFits(MaxEngineLog)
    \/ \E t \in Tables : AutoDrop(t) /\ LogFits(MaxEngineLog)
    \/ \E t \in Tables, kvs \in KVLists : AutoUpdate(t, kvs) /\ LogFits(MaxEngineLog)
    \/ \E t \in Tables, kvs \in KVLists : TxInsert(t, kvs)
    \/ \E t \in Tables, ks \in KeyLists : TxDelete(t, ks)
    \/ \E t \in Tables : TxDrop(t)
    \/ \E t \in Tables, kvs \in KVLists : TxUpdate(t, kvs)
    \/ Begin /\ LogFits(MaxEngineLog)
    \/ Commit /\ LogFits(MaxEngineLog)
    \/ Rollback /\ LogFits(MaxEngineLog)

EngineExecuteSpec == EngineInit /\ [][ExecuteNext]_vars

\* ------------------------------------------------- the index, three levels
\* An index filled in ascending order, as the tests fill theirs, up to the
\* last key before the root splits a second time: the root holds ORDER - 1
\* separators over ORDER leaves.  Insert calls of the last two keys (one is
\* stored and a separator, the other is new and splits the root) and Delete
\* calls of any key follow.
TallKeys == 1..NumTallKeys
TallFilled == NumTallKeys - 1
TallInserted == {TallFilled, NumTallKeys}

\* for _, k := range keys { tree.Insert(k, k+"-val") }
RECURSIVE Filled(_, _, _)
Filled(t, k, n) ==
    IF k > n THEN t
    ELSE With(Insert(t, k, 1), LAMBDA t2 : Filled(t2, k + 1, n))

TallInit ==
    /\ tree = Normalize(Filled(NewBPlusTree, 1, TallFilled))
    /\ abs = [k \in TallKeys |-> IF k <= TallFilled THEN 1 ELSE 0]
    /\ NoCallers
    /\ wal = <<>>
    /\ NoEngine

TallInsert(k, v) ==
    /\ tree' = Normalize(Insert(tree, k, v))
    /\ Cardinality(DOMAIN tree'.nodes) <= MaxTallNodes
    /\ abs' = [abs EXCEPT ![k] = v]
    /\ UNCHANGED <<wal, engineVars, lockVars>>

TallDelete(k) ==
    /\ tree' = Normalize(Delete(tree, k).t)
    /\ abs' = [abs EXCEPT ![k] = 0]
    /\ UNCHANGED <<wal, engineVars, lockVars>>

TallNext ==
    \/ \E k \in TallInserted : TallInsert(k, 1)
    \/ \E k \in TallKeys : TallDelete(k)

TreeTallSpec == TallInit /\ [][TallNext]_vars

\* ------------------------------------------------- vocabulary of the claims
\* A step of the index that is the call Insert(k, v), or Delete(k).
InsertStep(k, v) ==
    /\ abs' = [abs EXCEPT ![k] = v]
    /\ tree' = Normalize(Insert(tree, k, v))

DeleteStep(k) ==
    /\ abs' = [abs EXCEPT ![k] = 0]
    /\ tree' = Normalize(Delete(tree, k).t)

LeafNodes(t) == {n \in DOMAIN t.nodes : t.nodes[n].isLeaf}

\* The places of the leaves where key k is stored.
Stored(t, k) ==
    {<<n, i>> \in LeafNodes(t) \X (1..ORDER) :
        i <= Len(t.nodes[n].keys) /\ t.nodes[n].keys[i] = k}

Found(v) == [value |-> v, found |-> TRUE]
NotFound == [value |-> 0, found |-> FALSE]

\* The leaf Delete(k) descends to holds k, is not the root, and is left with
\* fewer than MIN_KEYS keys when k is taken out.
DropsLeafBelowMin(t, k) ==
    LET n == GetLeaf(t.nodes, t.root, k)
    IN /\ n # t.root
       /\ \E i \in 1..Len(t.nodes[n].keys) : t.nodes[n].keys[i] = k
       /\ Len(t.nodes[n].keys) - 1 < MIN_KEYS

\* ------------------------------------------------------------------ claims
\* C1: upsert idempotence.  After Insert(k, v1) followed by Insert(k, v2), for
\* any key k (a separator key of an internal node included), Get(k) returns
\* v2 and k is stored exactly once in the leaves.
C1_UpsertIdempotence ==
    [][\A k \in Keys, v1 \in Vals :
          InsertStep(k, v1) =>
              \A v2 \in Vals :
                  LET t2 == Insert(tree', k, v2)
                  IN Get(t2, k) = Found(v2) /\ Cardinality(Stored(t2, k)) = 1]_vars

\* C2: insert-then-get.  In every state reached by Insert and Delete calls,
\* Insert(k, v) of a key that is not in the tree makes Get(k) return (v, found),
\* and Get of a key never inserted, or deleted and not inserted again, reports
\* not-found.
C2_InsertThenGet ==
    [][/\ \A k \in Keys, v \in Vals :
             (InsertStep(k, v) /\ abs[k] = 0 /\ Stored(tree, k) = {})
                 => Get(tree', k) = Found(v)
       /\ \A k \in Keys : abs'[k] = 0 => Get(tree', k) = NotFound]_vars

\* C3: delete-then-miss.  For a key k that was inserted and is then deleted,
\* whatever rebalancing the delete triggers, Get(k) reports not-found.
C3_DeleteThenMiss ==
    [][\A k \in Keys :
          (DeleteStep(k) /\ abs[k] # 0) => Get(tree', k) = NotFound]_vars

\* C4: range correctness.  RangeQuery(lo, hi) returns exactly the stored keys k
\* with lo <= k <= hi (a bound of "" is unbounded on its side), each once and
\* with its current value.
C4_RangeCorrect ==
    \A lo \in 0..NumKeys, hi \in 0..NumKeys :
        RangeQuery(tree, lo, hi) =
            [k \in {x \in Keys : abs[x] # 0 /\ (lo = 0 \/ x >= lo) /\ (hi = 0 \/ x <= hi)}
                |-> abs[k]]

\* C5: underflow repair.  After a Delete that drops a leaf below MIN_KEYS,
\* every key not deleted is still retrievable by Get with its value, and no
\* node but the root holds fewer than MIN_KEYS keys.
C5_UnderflowRepair ==
    [][\A k \in Keys :
          (DeleteStep(k) /\ DropsLeafBelowMin(tree, k)) =>
              /\ \A x \in Keys : abs'[x] # 0 => Get(tree', x) = Found(abs'[x])
              /\ \A n \in DOMAIN tree'.nodes :
                    n # tree'.root => Len(tree'.nodes[n].keys) >= MIN_KEYS]_vars

\* ------------------------------------------------ vocabulary of the WAL claims
\* The calls a client of the WAL can make that write a data record.
WalCalls ==
    [op : {"SET"}, txID : {0} \cup TxIds, table : Tables, key : WalKeys, value : Vals]
    \cup [op : {"DELETE"}, txID : {0} \cup TxIds, table : Tables, key : WalKeys]
    \cup [op : {"DROP"}, txID : {0} \cup TxIds, table : Tables]

\* The line a call appends to the log.
Written(c) ==
    CASE c.op = "SET" -> WalAppend(<<>>, c.txID, c.table, c.key, c.value)[1]
      [] c.op = "DELETE" -> WalDelete(<<>>, c.txID, c.table, c.key)[1]
      [] c.op = "DROP" -> WalDropTable(<<>>, c.txID, c.table)[1]

AutoLines == {Written(c) : c \in {d \in WalCalls : d.txID = 0}}
TaggedLines(x) == {Written(c) : c \in {d \in WalCalls : d.txID = x}}
CallOf(line) == CHOOSE c \in WalCalls : Written(c) = line

\* The map table -> key -> value after one autocommit call.
RefCall(m, c) ==
    CASE c.op = "SET" -> Put(m, c.table, Put(Sub(m, c.table), c.key, c.value))
      [] c.op = "DELETE" -> IF Has(m, c.table) THEN [m EXCEPT ![c.table] = Del(@, c.key)] ELSE m
      [] c.op = "DROP" -> Del(m, c.table)

RECURSIVE RefState(_, _)
RefState(m, w) == IF w = <<>> THEN m ELSE RefState(RefCall(m, CallOf(Head(w))), Tail(w))

Lines(w) == {w[i] : i \in 1..Len(w)}
RECURSIVE Without(_, _)
Without(w, ls) ==
    IF w = <<>> THEN <<>>
    ELSE IF Head(w) \in ls THEN Without(Tail(w), ls)
    ELSE <<Head(w)>> \o Without(Tail(w), ls)

\* C6: when every record of the log was written by Append, Delete or
\* DropTable with an empty transaction id, Replay returns exactly the map
\* table -> key -> value obtained by applying the calls in log order.
C6_AutocommitRoundTrip ==
    Lines(wal) \subseteq AutoLines => Replay(wal) = RefState(EmptyMap, wal)

\* C7: the records tagged with a transaction id whose COMMIT_TX is not in the
\* log have no effect on what Replay returns: it returns what it returns for
\* the log without them.
C7_UncommittedInvisible ==
    \A x \in TxIds :
        CommitTx(<<>>, x)[1] \notin Lines(wal)
            => Replay(wal) = Replay(Without(wal, TaggedLines(x)))

\* A log with records of a transaction that has no COMMIT_TX, next to
\* autocommit records that replay to a non-empty state.
C7_Witness ==
    \E x \in TxIds :
        /\ CommitTx(<<>>, x)[1] \notin Lines(wal)
        /\ Lines(wal) \cap TaggedLines(x) # {}
        /\ Lines(wal) \cap AutoLines # {}
        /\ Replay(wal) # EmptyMap

\* C8: a log that ends with records tagged X followed by ROLLBACK_TX X
\* replays to exactly what the log before those records replays to.
C8_RollbackRestores ==
    \A x \in TxIds : \A n \in 0..Len(wal) :
        /\ Len(wal) >= n + 2
        /\ wal[Len(wal)] = RollbackTx(<<>>, x)[1]
        /\ \A i \in (n + 1)..(Len(wal) - 1) : wal[i] \in TaggedLines(x)
        => Replay(wal) = Replay(Prefix(wal, n))

\* A table that held a key, dropped and re-populated in a transaction that
\* was then rolled back.
C8_Witness ==
    \E x \in TxIds, t \in Tables, k \in WalKeys, v \in Vals :
        /\ Len(wal) = 4
        /\ wal[1] \in AutoLines
        /\ Replay(Prefix(wal, 1)) # EmptyMap
        /\ wal[2] = WalDropTable(<<>>, x, t)[1]
        /\ wal[3] = WalAppend(<<>>, x, t, k, v)[1]
        /\ wal[4] = RollbackTx(<<>>, x)[1]
        /\ Has(Replay(Prefix(wal, 1)), t)

\* C9: a log that ends with DROP TABLE X T, SET X T k v, COMMIT_TX X, X
\* having buffered nothing before, replays to a table T that exists and
\* holds only k:v.
C9_CommitOrder ==
    \A x \in TxIds, t \in Tables, k \in WalKeys, v \in Vals :
        LET n == Len(wal) - 3 IN
        /\ n >= 0
        /\ wal[n + 1] = WalDropTable(<<>>, x, t)[1]
        /\ wal[n + 2] = WalAppend(<<>>, x, t, k, v)[1]
        /\ wal[n + 3] = CommitTx(<<>>, x)[1]
        /\ Lines(Prefix(wal, n)) \cap TaggedLines(x) = {}
        => /\ Has(Replay(wal), t)
           /\ Replay(wal)[t] = (k :> v)

\* --------------------------------------------- vocabulary of the engine claims
\* What an engine with table map tb answers for key k of table t.
Shows(tb, t, k) == IF Has(tb, t) THEN Get(tb[t], k) ELSE NotFound

\* The log as it was when the active transaction began.
LogAtBegin ==
    Prefix(wal, (CHOOSE i \in 1..Len(wal) : wal[i] = BeginTx(<<>>, currentTxID)[1]) - 1)

\* The table map tb shows every change the overlay holds.
ShowsOverlay(tb) ==
    /\ \A t \in DOMAIN txChanges : \A k \in DOMAIN txChanges[t] :
           Shows(tb, t, k) = Found(txChanges[t][k])
    /\ \A t \in DOMAIN txDeletes : \A k \in txDeletes[t] : Shows(tb, t, k) = NotFound
    /\ \A t \in txDroppedTables : ~Has(tb, t)

\* The transaction that was active stops being so in this step and the log
\* then holds neither its COMMIT_TX nor its ROLLBACK_TX: the process stopped
\* (Restart, CommitCrash) and tables' is the engine built from the log.
StoppedInTx ==
    /\ currentTxID # 0
    /\ currentTxID' = 0
    /\ CommitTx(<<>>, currentTxID)[1] \notin Lines(wal')
    /\ RollbackTx(<<>>, currentTxID)[1] \notin Lines(wal')

\* This step appended the COMMIT_TX of the active transaction (Commit).
CommittedTx ==
    /\ currentTxID # 0
    /\ wal' # wal
    /\ wal'[Len(wal')] = CommitTx(<<>>, currentTxID)[1]

\* C10: if the process stops while a transaction is active, between two
\* statements or inside the commit path before COMMIT_TX is appended, the
\* engine built from the log is one that could have been built from the log
\* as it was at BEGIN; once Commit has appended COMMIT_TX, every engine built
\* from the log shows every upsert, delete and drop of the transaction.
C10_CrashAtomicity ==
    [][/\ StoppedInTx => tables' \in NewEngine(LogAtBegin)
       /\ CommittedTx => \A e \in NewEngine(wal') : ShowsOverlay(e)]_vars

\* ------------------------------------------------------- restart (C11, C12)
\* C11: when the engine is Idle, every engine NewEngine can build from the
\* log answers Get, for every table and every key, as the live engine does:
\* the same value, or not found.
C11_RestartPreservesContents ==
    currentTxID = 0 =>
        \A e \in NewEngine(wal) : \A t \in Tables, k \in Keys :
            Shows(e, t, k) = Shows(tables, t, k)

\* C12: when the engine is Idle, every engine NewEngine can build from the
\* log knows exactly the tables of the live table map, those without keys
\* included.
C12_RestartPreservesTables ==
    currentTxID = 0 => \A e \in NewEngine(wal) : DOMAIN e = DOMAIN tables

\* ------------------------------------------------------------ rollback (C13)
\* This step appended the ROLLBACK_TX of the active transaction (Rollback).
RolledBack ==
    /\ currentTxID # 0
    /\ wal' = RollbackTx(wal, currentTxID)

\* C13: no step that begins a transaction, runs a statement inside one or
\* rolls it back changes the live table map or any live index; the state
\* after ROLLBACK is therefore the state the transaction began in.
C13_RollbackRestoresLive ==
    [][(currentTxID' # 0 \/ RolledBack) => tables' = tables]_vars

\* A transaction was rolled back over a live table that holds a key.
C13_Witness ==
    /\ currentTxID = 0
    /\ wal # <<>>
    /\ wal[Len(wal)] = RollbackTx(<<>>, clock)[1]
    /\ \E t \in DOMAIN tables : \E k \in WalKeys : Get(tables[t], k).found

\* ------------------------------------------------- commit and SELECT (C14)
\* The keys and values a SELECT printed, without the transaction-id marker.
KeysAndValues(res) ==
    With(res.rows, LAMBDA rows : {<<rows[i].Key, rows[i].Value>> : i \in DOMAIN rows})

\* C14: for every table the transaction did not drop, the keys and values
\* of an autocommit SELECT * right after COMMIT are those of the SELECT *
\* inside the transaction right before COMMIT.
C14_CommitPublishesView ==
    [][CommittedTx =>
          \A t \in Tables \ txDroppedTables :
              KeysAndValues(SelectResult(t, <<>>)') = KeysAndValues(TxSelectResult(t, <<>>))]_vars

\* ------------------------------------- drop, then insert, in a transaction (C15)
\* The answers of an INSERT into table t inside a transaction.
InsertRefused(t) ==
    Message("Table '%s' marked for drop within this transaction, cannot insert into it", t)
InsertBuffered(t, n) == Counted("Buffered %d key(s) for insert/update into table '%s'", n, t)

\* The active transaction has dropped the live table t, which holds a key, and
\* the statement just executed is an INSERT of one key into t.
DroppedThenInserted(t) ==
    /\ currentTxID # 0
    /\ t \in txDroppedTables
    /\ Has(tables, t)
    /\ DOMAIN RangeQuery(tables[t], 0, 0) # {}
    /\ result \in {InsertRefused(t), InsertBuffered(t, 1)}

AlreadyActive ==
    Message("Error: A transaction is already active. Commit or rollback the current transaction first.", 0)
Started(x) == TxMessage("Transaction started: %s", x)
CommittedReply(x) == TxMessage("Transaction %s committed.", x)
RolledBackReply(x) == TxMessage("Transaction %s rolled back.", x)
NothingToCommit == Message("Error: No active transaction to commit.", 0)
NothingToRollback == Message("Error: No active transaction to rollback.", 0)

\* Every answer COMMIT can give, and every answer ROLLBACK can give.
CommitReplies == {NothingToCommit} \cup {CommittedReply(x) : x \in 0..NumTx}
RollbackReplies == {NothingToRollback} \cup {RolledBackReply(x) : x \in 0..NumTx}

\* C16: a BEGIN executed while a transaction is active answers the
\* already-active error and changes neither the transaction id, the overlay,
\* the live tables nor the log; a COMMIT executed next commits that
\* transaction and a ROLLBACK executed next rolls it back.
C16_SingleTransaction ==
    [][/\ (currentTxID # 0 /\ result' \in {AlreadyActive} \cup {Started(x) : x \in TxIds})
             => /\ result' = AlreadyActive
                /\ UNCHANGED <<currentTxID, txChanges, txDeletes, txDroppedTables, tables, wal>>
       /\ (currentTxID # 0 /\ result = AlreadyActive /\ result' \in CommitReplies)
             => /\ result' = CommittedReply(currentTxID)
                /\ currentTxID' = 0
                /\ wal'[Len(wal')] = CommitTx(<<>>, currentTxID)[1]
       /\ (currentTxID # 0 /\ result = AlreadyActive /\ result' \in RollbackReplies)
             => /\ result' = RolledBackReply(currentTxID)
                /\ currentTxID' = 0
                /\ wal' = RollbackTx(wal, currentTxID)]_vars

\* A second BEGIN was refused while the overlay holds a buffered change.
C16_Witness ==
    /\ currentTxID # 0
    /\ result = AlreadyActive
    /\ \E t \in DOMAIN txChanges : txChanges[t] # EmptyMap

\* C17: a COMMIT or a ROLLBACK executed while no transaction is active
\* answers an error, appends nothing to the log and changes neither the live
\* tables nor any other field of the engine.
C17_NoTransactionError ==
    [][(currentTxID = 0 /\ result' \in CommitReplies \cup RollbackReplies)
          => /\ result' \in {NothingToCommit, NothingToRollback}
             /\ UNCHANGED <<wal, tables, currentTxID, txChanges, txDeletes,
                            txDroppedTables, clock>>]_vars

\* A ROLLBACK was refused by an idle engine that holds a table and a log.
C17_Witness ==
    /\ currentTxID = 0
    /\ result = NothingToRollback
    /\ tables # EmptyMap
    /\ wal # <<>>

\* ------------------------------------------- reads in a transaction (C18)
\* The rows a SELECT printed, as a set.
RowSet(res) == With(res.rows, LAMBDA rows : {rows[i] : i \in DOMAIN rows})

\* The live keys and values of table t: what SELECT * prints for the live
\* table map outside a transaction.
LiveEntries(t) == KeysAndValues(SelectResult(t, <<>>))
LiveKeys(t) == {e[1] : e \in LiveEntries(t)}

\* The rows of SELECT * on table t agree with the live table and the overlay.
MergedRead(t, rows) ==
    LET upserts == Sub(txChanges, t)
        deletes == SubSet(txDeletes, t)
    IN /\ {r.Key : r \in rows} = (LiveKeys(t) \ deletes) \cup DOMAIN upserts
       /\ \A r \in rows :
             IF r.Key \in DOMAIN upserts
             THEN r.Value = upserts[r.Key] /\ r.Tx = currentTxID
             ELSE <<r.Key, r.Value>> \in LiveEntries(t) /\ r.Tx = 0

TableNotFound(t) == Message("Table '%s' not found", t)
TableDropped(t) == Message("Table '%s' dropped within this transaction", t)

\* The active transaction has buffered one key k with value v for table t,
\* which is not in the live table map, and nothing else.
OnlyInsertedInto(t, k, v) ==
    /\ currentTxID # 0
    /\ ~Has(tables, t)
    /\ txChanges = (t :> (k :> v))
    /\ \A u \in DOMAIN txDeletes : txDeletes[u] = {}
    /\ txDroppedTables = {}

\* This step is a SELECT: it changes nothing but the answer, and the answer
\* is rows, "No results", or that table t is not found or dropped.
SelectStep(t) ==
    /\ UNCHANGED <<tables, wal, currentTxID, txChanges, txDeletes, txDroppedTables, clock>>
    /\ \/ result'.msg \in {"", "No results"}
       \/ result' \in {TableNotFound(t), TableDropped(t)}

\* C19: after BEGIN and INSERT (k, v) INTO t, t a new table, a SELECT
\* executed before COMMIT answers that t is not found; after COMMIT,
\* SELECT * answers the one row k: v.
C19_PreCommitInvisible ==
    [][\A t \in Tables, k \in WalKeys, v \in Vals :
          OnlyInsertedInto(t, k, v) =>
              /\ SelectStep(t) => result' = TableNotFound(t)
              /\ CommittedTx => SelectResult(t, <<>>)' = Printed(<<Row(k, 0, v)>>)]_vars

\* ---------------------------------------------- autocommit INSERT (C20)
\* The answers of an autocommit INSERT.
NothingInserted == Message("No new keys inserted (they might already exist)", 0)
Inserted(n, t) == Counted("Inserted %d key(s) into table '%s'", n, t)

\* The records this step appended to the log.
Appended == {wal'[i] : i \in (Len(wal) + 1)..Len(wal')}

\* The keys of table t that this step made answer differently.
Changed(t) == {k \in Keys : Shows(tables', t, k) # Shows(tables, t, k)}

\* C20: an autocommit INSERT leaves every key the table already holds with
\* its old value; the keys it stores are keys the table did not hold; the
\* count it answers is the number of keys it stored; and it appends to the
\* log exactly one autocommit SET record for each key it stored, with the
\* stored value, and no other record.
C20_PureInsert ==
    [][(currentTxID = 0 /\ result' \in {NothingInserted} \cup
                              {Inserted(n, t) : n \in 0..MaxStmt, t \in Tables})
          => /\ \A t \in Tables, k \in Keys :
                    Shows(tables, t, k).found => Shows(tables', t, k) = Shows(tables, t, k)
             /\ \A t \in Tables : \A k \in Changed(t) : Shows(tables', t, k).found
             /\ result'.n = Cardinality(UNION {{<<t, k>> : k \in Changed(t)} : t \in Tables})
             /\ \A t \in Tables : Changed(t) # {} => result'.table = t
             /\ Prefix(wal', Len(wal)) = wal
             /\ Len(wal') = Len(wal) + result'.n
             /\ Appended = UNION {{WalAppend(<<>>, 0, t, k, Shows(tables', t, k).value)[1] :
                                      k \in Changed(t)} : t \in Tables}]_vars

\* ---------------------------------------------- autocommit UPDATE (C21)
\* The answers of an autocommit UPDATE that found its table.
NothingUpdated == Message("No keys found to update", 0)
Updated(n, t) == Counted("Updated %d key(s) in table '%s'", n, t)

\* The key/value lists a statement can carry.
Statements == KVLists \cup KVListsOver(DeepKeys)

\* The autocommit SET record of key k of table t with value v.
SetRecord(t, k, v) == WalAppend(<<>>, 0, t, k, v)[1]

\* The pairs of the list kvs whose key table t holds, in the order listed.
Present(t, kvs) == SelectSeq(kvs, LAMBDA kv : Shows(tables, t, kv.Key).found)

\* The value the last pair of kvs with key k gives it.
LastValue(kvs, k) ==
    kvs[CHOOSE i \in DOMAIN kvs :
            kvs[i].Key = k /\ \A j \in DOMAIN kvs : kvs[j].Key = k => j <= i].Value

\* This step did to table t what UPDATE t kvs is to do: a listed key the
\* table holds shows its new value (the last one listed for it), a listed key
\* the table does not hold is still not held, no other key changed; the step
\* appended one SET record for each listed pair whose key the table holds, in
\* the order listed, and nothing else; and the count is the number of those
\* pairs.
UpdateOf(t, kvs) ==
    /\ \A i \in DOMAIN kvs :
          Shows(tables', t, kvs[i].Key) =
             IF Shows(tables, t, kvs[i].Key).found
             THEN Found(LastValue(kvs, kvs[i].Key)) ELSE NotFound
    /\ \A u \in Tables, k \in Keys :
          (u # t \/ k \notin {kvs[i].Key : i \in DOMAIN kvs})
             => Shows(tables', u, k) = Shows(tables, u, k)
    /\ wal' = wal \o [i \in 1..Len(Present(t, kvs)) |->
                         SetRecord(t, Present(t, kvs)[i].Key, Present(t, kvs)[i].Value)]
    /\ result'.n = Len(Present(t, kvs))
    /\ result'.n > 0 => result'.table = t

ReadsOrChanges(t) ==
    \/ \E ks \in SelectLists \cup KeyListsOver(DeepKeys) : AutoSelect(t, ks)
    \/ \E ks \in KeyLists \cup KeyListsOver(DeepKeys) : AutoDelete(t, ks)
    \/ \E kvs \in Statements : AutoUpdate(t, kvs)
    \/ AutoDrop(t)

\* C22: outside a transaction, a SELECT, DELETE, UPDATE or DROP that names a
\* table the live table map does not hold answers that the table is not
\* found, appends no record to the log and leaves the table map as it was:
\* the table is not created.
C22_MissingTable ==
    [][\A t \in Tables :
          (currentTxID = 0 /\ ~Has(tables, t) /\ ReadsOrChanges(t))
             => /\ result' = TableNotFound(t)
                /\ wal' = wal
                /\ tables' = tables]_vars

\* Outside a transaction a statement has just answered that table t is not
\* found; the table had been there before (the log is not empty) and is not
\* in the table map.
C22_Witness ==
    /\ currentTxID = 0
    /\ wal # <<>>
    /\ \E t \in Tables : ~Has(tables, t) /\ result = TableNotFound(t)

\* ------------------------------------------- one table at a time (C23)
\* Every table but t is in the table map after this step exactly if it was
\* before, with the same contents.
OthersUnchanged(t) ==
    \A u \in MultipleTables \ {t} :
        /\ Has(tables', u) = Has(tables, u)
        /\ Has(tables, u) => tables'[u] = tables[u]
        /\ \A k \in Keys : Shows(tables', u, k) = Shows(tables, u, k)

\* The autocommit DROP TABLE record of table t.
DropRecord(t) == WalDropTable(<<>>, 0, t)[1]

\* C23: an autocommit DROP of a table the table map holds takes the table
\* out of the map, appends exactly one autocommit DROP TABLE record and leaves
\* every other table with its contents; an autocommit DELETE or INSERT on one
\* table changes no other table, whatever keys the two share.
C23_OtherTablesUntouched ==
    [][\A t \in MultipleTables :
          /\ (Has(tables, t) /\ AutoDrop(t))
                => /\ ~Has(tables', t)
                   /\ wal' = Append(wal, DropRecord(t))
                   /\ OthersUnchanged(t)
          /\ (\/ \E ks \in KeyLists : AutoDelete(t, ks)
              \/ \E kvs \in KVLists : AutoInsert(t, kvs))
                => OthersUnchanged(t)]_vars

\* Two tables held the same key; one of them has just been dropped and the
\* other still shows the key.
C23_Witness ==
    \E t \in MultipleTables, u \in MultipleTables, k \in WalKeys, v \in Vals, w \in Vals :
        /\ t # u
        /\ result = Message("Table '%s' dropped", t)
        /\ wal = <<SetRecord(t, k, v), SetRecord(u, k, w), DropRecord(t)>>
        /\ ~Has(tables, t)
        /\ Shows(tables, u, k) = Found(w)

\* ------------------------------------ nothing pending on a dropped table (C24)
\* The answers of an UPDATE and of a DELETE on a table the transaction has
\* dropped, and of the DROP itself.
UpdateRefused(t) ==
    Message("Table '%s' marked for drop within this transaction, cannot update it", t)
DeleteRefused(t) ==
    Message("Table '%s' marked for drop within this transaction, cannot delete from it", t)
DropBuffered(t) == Message("Buffered DROP for table '%s'", t)

\* No table the transaction has dropped has a pending upsert or delete.
DroppedHaveNothingPending ==
    currentTxID # 0 =>
        \A t \in txDroppedTables : Sub(txChanges, t) = EmptyMap /\ SubSet(txDeletes, t) = {}

\* This step is an INSERT, UPDATE or DELETE on table t inside a transaction.
WritesInTx(t) ==
    \/ \E kvs \in Statements : TxInsert(t, kvs) \/ TxUpdate(t, kvs)
    \/ \E ks \in KeyLists \cup KeyListsOver(DeepKeys) : TxDelete(t, ks)

\* C24: while a transaction is active, a table it has dropped has no pending
\* upserts and no pending deletes: the DROP discards those the table had, and
\* every later INSERT, UPDATE or DELETE on the table in the transaction is
\* refused with an error and leaves the overlay as it was.
C24_DroppedTableHasNoOverlay ==
    [][/\ DroppedHaveNothingPending
       /\ DroppedHaveNothingPending'
       /\ \A t \in Tables :
             /\ (currentTxID # 0 /\ result' = DropBuffered(t))
                   => /\ t \in txDroppedTables'
                      /\ ~Has(txChanges', t)
                      /\ ~Has(txDeletes', t)
             /\ (currentTxID # 0 /\ t \in txDroppedTables /\ WritesInTx(t))
                   => /\ result' \in {InsertRefused(t), UpdateRefused(t), DeleteRefused(t)}
                      /\ UNCHANGED <<txChanges, txDeletes, txDroppedTables>>]_vars

\* A transaction dropped a table that only its own pending upserts had made
\* (the table map does not hold it), and an UPDATE on it has just been
\* refused.
C24_Witness ==
    /\ currentTxID # 0
    /\ \E t \in txDroppedTables : ~Has(tables, t) /\ result = UpdateRefused(t)

\* ------------------------------------------------ the deferred DROP (C25)
\* The DROP TABLE record of table t tagged with transaction x.
TxDropRecord(x, t) == WalDropTable(<<>>, x, t)[1]

PendingUpserts(t) == DOMAIN Sub(txChanges, t)
PendingDeletes(t) == SubSet(txDeletes, t)

\* While a transaction is active no key of any table has both.
OverlayDisjoint ==
    currentTxID # 0 => \A t \in Tables : PendingUpserts(t) \cap PendingDeletes(t) = {}

\* C26: while a transaction is active the keys with a pending upsert and the
\* keys with a pending delete are disjoint for every table: a DELETE of a
\* key takes the key's pending upsert away, an INSERT or UPDATE of a key
\* takes its pending delete away, and a key whose last statement in the
\* transaction was a DELETE (a key inserted and then deleted, for one) is not
\* found after COMMIT.
C26_UpsertsAndDeletesDisjoint ==
    [][/\ OverlayDisjoint
       /\ OverlayDisjoint'
       /\ \A t \in Tables :
             /\ \A ks \in KeyLists \cup KeyListsOver(DeepKeys) :
                   ((\E i \in DOMAIN ks : ks[i] \in PendingUpserts(t)) /\ TxDelete(t, ks))
                      => \A i \in DOMAIN ks :
                            ks[i] \in PendingUpserts(t)
                               => /\ ks[i] \notin PendingUpserts(t)'
                                  /\ ks[i] \in PendingDeletes(t)'
             /\ \A kvs \in Statements :
                   ((\E i \in DOMAIN kvs : kvs[i].Key \in PendingDeletes(t))
                       /\ (TxInsert(t, kvs) \/ TxUpdate(t, kvs)))
                      => \A i \in DOMAIN kvs :
                            kvs[i].Key \in PendingDeletes(t)
                               => /\ kvs[i].Key \notin PendingDeletes(t)'
                                  /\ kvs[i].Key \in PendingUpserts(t)'
             /\ CommittedTx
                   => \A k \in PendingDeletes(t) : Shows(tables', t, k) = NotFound]_vars

\* --------------------------- INSERT of a committed key in a transaction (C27)
\* The active transaction has buffered value v for key k of table t, and the
\* live index of t already holds k.
OverwritePending(t, k, v) ==
    /\ currentTxID # 0
    /\ Has(Sub(txChanges, t), k)
    /\ txChanges[t][k] = v
    /\ Shows(tables, t, k).found

UpdateBuffered(t, n) == Counted("Buffered %d key(s) for update in table '%s'", n, t)
DeleteBuffered(t, n) == Counted("Buffered %d key(s) for deletion from table '%s'", n, t)

\* The records a transaction x can be logged with: SET, DELETE and DROP TABLE
\* tagged with x.
TaggedRecords(x) ==
    {WalAppend(<<>>, x, t, k, v)[1] : t \in Tables, k \in Keys, v \in Vals}
        \cup {WalDelete(<<>>, x, t, k)[1] : t \in Tables, k \in Keys}
        \cup {TxDropRecord(x, t) : t \in Tables}

\* This step is an INSERT, UPDATE, DELETE or DROP on table t that the active
\* transaction accepted, and the overlay after it holds what was accepted:
\* the listed pairs as pending upserts, the counted keys as pending upserts or
\* deletes, the table as dropped.
AcceptedInTx(t) ==
    /\ currentTxID # 0
    /\ \/ \E kvs \in Statements :
             /\ result' = InsertBuffered(t, Len(kvs))
             /\ \A i \in DOMAIN kvs :
                   /\ kvs[i].Key \in PendingUpserts(t)'
                   /\ txChanges'[t][kvs[i].Key] = kvs[i].Value
       \/ \E kvs \in Statements :
             /\ result' \in {UpdateBuffered(t, n) : n \in 1..Len(kvs)}
             /\ result'.n <= Cardinality({i \in DOMAIN kvs :
                                  /\ kvs[i].Key \in PendingUpserts(t)'
                                  /\ txChanges'[t][kvs[i].Key] = kvs[i].Value})
       \/ \E ks \in KeyLists \cup KeyListsOver(DeepKeys) :
             /\ result' \in {DeleteBuffered(t, n) : n \in 1..Len(ks)}
             /\ result'.n <= Cardinality({i \in DOMAIN ks : ks[i] \in PendingDeletes(t)'})
       \/ /\ result' = DropBuffered(t)
          /\ t \in txDroppedTables'

\* The answer of this step says that the active transaction accepted an
\* INSERT, UPDATE, DELETE or DROP.
AnswersBuffered ==
    /\ currentTxID # 0
    /\ result'.msg \in {InsertBuffered(0, 0).msg, UpdateBuffered(0, 0).msg,
                        DeleteBuffered(0, 0).msg, DropBuffered(0).msg}

\* C28 as stated: every INSERT, UPDATE, DELETE or DROP a transaction accepts
\* is recorded in the overlay, and the same step appends to the log at least
\* one record, every one tagged with the transaction id.
C28_LoggedWhenAccepted ==
    [][AnswersBuffered
          => /\ \E t \in Tables : AcceptedInTx(t)
             /\ Prefix(wal', Len(wal)) = wal
             /\ Len(wal') > Len(wal)
             /\ Appended \subseteq TaggedRecords(currentTxID)]_vars

\* C28 as the engine does it: every INSERT, UPDATE, DELETE or DROP a
\* transaction accepts is recorded in the overlay and appends nothing to the
\* log; the records tagged with the transaction id are appended by COMMIT,
\* which logs a DROP TABLE for every dropped table and a SET for every
\* pending upsert, no DELETE but of a pending delete, and COMMIT_TX last.
C28_LoggedAtCommit ==
    [][/\ AnswersBuffered
          => /\ \E t \in Tables : AcceptedInTx(t)
             /\ wal' = wal
       /\ CommittedTx
          => /\ Prefix(wal', Len(wal)) = wal
             /\ Appended \subseteq TaggedRecords(currentTxID) \cup {CommitTx(<<>>, currentTxID)[1]}
             /\ \A t \in txDroppedTables : TxDropRecord(currentTxID, t) \in Appended
             /\ \A t \in Tables : \A k \in PendingUpserts(t) :
                   WalAppend(<<>>, currentTxID, t, k, txChanges[t][k])[1] \in Appended
             /\ \A t \in Tables, k \in Keys :
                   WalDelete(<<>>, currentTxID, t, k)[1] \in Appended => k \in PendingDeletes(t)]_vars

\* A transaction has just buffered an INSERT, and the last record of the log
\* is still its BEGIN_TX.
C28_Witness ==
    /\ currentTxID # 0
    /\ \E t \in Tables : result = InsertBuffered(t, 1) /\ PendingUpserts(t) # {}
    /\ wal # <<>>
    /\ wal[Len(wal)] = BeginTx(<<>>, currentTxID)[1]

\* ------------------------------------------- one Execute at a time (C29)
\* Caller p is inside Execute, past e.mu.Lock() and before e.mu.Unlock().
InExecute(p) == calls[p].pc \in {"run", "write"}

\* C29: Execute calls of concurrent callers are serialized by the one mutex:
\* at most one caller is inside Execute at any time, and it holds the mutex;
\* the records one call appends are next to one another in the log; and the
\* records are in the log in the order in which their calls locked the mutex.
C29_ExecuteSerialized ==
    /\ \A p \in Callers, q \in Callers : (InExecute(p) /\ InExecute(q)) => p = q
    /\ \A p \in Callers : InExecute(p) => mu = p
    /\ Len(writers) = Len(wal)
    /\ \A i \in DOMAIN writers, k \in DOMAIN writers :
          (i < k /\ writers[i] = writers[k]) => \A j \in i..k : writers[j] = writers[i]
    /\ \A i \in DOMAIN writers, j \in DOMAIN writers : i < j => writers[i] <= writers[j]

\* The first call appended two records; the second call, of another caller,
\* has appended one and has one more to append, while the first caller is
\* waiting at the mutex with a third call.
C29_Witness ==
    \E p \in Callers, q \in Callers :
        /\ p # q
        /\ writers = <<1, 1, 2>>
        /\ calls[p].pc = "write" /\ calls[p].ticket = 2 /\ calls[p].todo # <<>>
        /\ calls[q].pc = "lock" /\ calls[q].ticket = 1

\* ------------------------------------------------- the shape of a node (C30)
\* The keys of node nd are strictly increasing and at most ORDER - 1; a leaf
\* has one value for each key, an internal node one child more than keys.
NodeShape(nd) ==
    /\ \A i \in 1..(Len(nd.keys) - 1) : nd.keys[i] < nd.keys[i + 1]
    /\ Len(nd.keys) <= ORDER - 1
    /\ nd.isLeaf => Len(nd.values) = Len(nd.keys)
    /\ ~nd.isLeaf => Len(nd.children) = Len(nd.keys) + 1

\* C30: after every Insert and every Delete, every node of the B+Tree has
\* strictly increasing keys, at most ORDER - 1 of them, and as many values as
\* keys if it is a leaf, one child more than keys if it is internal.
C30_NodeShape == \A n \in DOMAIN tree.nodes : NodeShape(tree.nodes[n])

\* ------------------------------------------------------ the leaf chain (C31)
\* The leaves of the tree, in the order a left-to-right walk of the children
\* from the root meets them.
TreeLeaves(t) ==
    LET pre == Preorder(t.nodes, t.root)
    IN SelectSeq(pre, LAMBDA n : t.nodes[n].isLeaf)

\* The keys the chain of next pointers meets from the leftmost leaf on.
ChainKeys(t) ==
    LET es == ChainEntries(t.nodes, Chain(t.nodes, LeftmostLeaf(t.nodes, t.root)))
    IN [i \in 1..Len(es) |-> es[i][1]]

\* C31: leaf chain invariant.  After every Insert and Delete (splits and
\* merges included), following next from the leftmost leaf visits every leaf
\* of the tree exactly once and ends at nil, and the keys met along the chain
\* are strictly increasing.
C31_LeafChain ==
    /\ Chain(tree.nodes, LeftmostLeaf(tree.nodes, tree.root)) = TreeLeaves(tree)
    /\ \A i \in 1..(Len(ChainKeys(tree)) - 1) : ChainKeys(tree)[i] < ChainKeys(tree)[i + 1]

\* ------------------------------------------------ the descent of insert (C32)
\* The 0-based child index each operation takes at an internal node with the
\* separators keys when it looks for key.
InsertChild(keys, key) == InsertScan(keys, key)
GetChild(keys, key) == DescendScan(keys, key)

\* C32: Insert descends internal nodes with the same comparison as Get and
\* Delete, advancing past a separator while key >= separator, so that a key
\* equal to a separator is always routed to the child on the separator's right.
C32_InsertDescendsLikeGet ==
    \A n \in DOMAIN tree.nodes : \A k \in Keys :
        ~tree.nodes[n].isLeaf =>
            /\ InsertChild(tree.nodes[n].keys, k) = GetChild(tree.nodes[n].keys, k)
            /\ \A i \in 1..Len(tree.nodes[n].keys) :
                  tree.nodes[n].keys[i] = k => InsertChild(tree.nodes[n].keys, k) >= i

\* ------------------------------------------------------- the separators (C33)
\* The keys stored in the leaves of the subtree of node n.
RECURSIVE SubtreeKeys(_, _)
SubtreeKeys(h, n) ==
    IF h[n].isLeaf THEN {h[n].keys[i] : i \in 1..Len(h[n].keys)}
    ELSE UNION {SubtreeKeys(h, h[n].children[i]) : i \in 1..Len(h[n].children)}

\* C33: separator invariant.  After any sequence of Insert and Delete, for
\* every internal node and every separator index i, every key stored in the
\* subtree of child i is strictly less than keys[i] and every key stored in
\* the subtree of child i+1 is greater than or equal to keys[i]; hence every
\* key stored in any leaf is found by Get.
C33_Separators ==
    /\ \A n \in DOMAIN tree.nodes :
          ~tree.nodes[n].isLeaf =>
              \A i \in 1..Len(tree.nodes[n].keys) :
                  /\ \A k \in SubtreeKeys(tree.nodes, tree.nodes[n].children[i]) :
                        k < tree.nodes[n].keys[i]
                  /\ \A k \in SubtreeKeys(tree.nodes, tree.nodes[n].children[i + 1]) :
                        k >= tree.nodes[n].keys[i]
    /\ \A k \in SubtreeKeys(tree.nodes, tree.root) : Get(tree, k).found

\* --------------------------------------------- overwrite of a stored key (C34)
\* The number of levels of the subtree of node n (a leaf has height 1).
RECURSIVE Height(_, _)
Height(h, n) == IF h[n].isLeaf THEN 1 ELSE 1 + Height(h, h[n].children[1])

\* Tree t2 has the nodes of t1 with the same keys, children and next pointers.
SameStructure(t1, t2) ==
    /\ t2.root = t1.root
    /\ DOMAIN t2.nodes = DOMAIN t1.nodes
    /\ \A n \in DOMAIN t1.nodes :
          /\ t2.nodes[n].isLeaf = t1.nodes[n].isLeaf
          /\ t2.nodes[n].keys = t1.nodes[n].keys
          /\ t2.nodes[n].children = t1.nodes[n].children
          /\ t2.nodes[n].next = t1.nodes[n].next
    /\ Height(t2.nodes, t2.root) = Height(t1.nodes, t1.root)

\* C34: Insert of a key that is already stored overwrites its value in place
\* and changes nothing else: the number of nodes, every node's key list, the
\* leaf chain and the tree height are the same before and after.
C34_OverwriteInPlace ==
    [][\A k \in Keys, v \in Vals :
          (InsertStep(k, v) /\ Stored(tree, k) # {}) =>
              /\ SameStructure(tree, tree')
              /\ \E p \in Stored(tree, k) :
                    \A n \in LeafNodes(tree) :
                        tree'.nodes[n].values =
                            IF n = p[1] THEN [tree.nodes[n].values EXCEPT ![p[2]] = v]
                            ELSE tree.nodes[n].values]_vars

\* ------------------------------------------------------ the tree height (C35)
AllKeys == Keys \cup TallKeys

\* Every node insert passes on its way to the leaf of key is full, and the
\* leaf does not hold key where insert looks for it: each of them splits.
RECURSIVE PathFull(_, _, _)
PathFull(h, n, key) ==
    /\ Len(h[n].keys) = ORDER - 1
    /\ IF h[n].isLeaf
       THEN LET i == LeafScan(h[n].keys, key)
            IN ~(i < Len(h[n].keys) /\ h[n].keys[i + 1] = key)
       ELSE PathFull(h, h[n].children[InsertScan(h[n].keys, key) + 1], key)

\* C35: the tree height grows only through a root split.  A single Insert
\* raises the height by at most one, it does so exactly when the split
\* propagates to the root (the new root then has one separator key and two
\* children), and Delete never raises the height.
C35_HeightGrowth ==
    [][/\ \A k \in AllKeys, v \in Vals :
             InsertStep(k, v) =>
                 /\ Height(tree'.nodes, tree'.root) <= Height(tree.nodes, tree.root) + 1
                 /\ (Height(tree'.nodes, tree'.root) = Height(tree.nodes, tree.root) + 1)
                       <=> PathFull(tree.nodes, tree.root, k)
                 /\ PathFull(tree.nodes, tree.root, k) =>
                       /\ ~tree'.nodes[tree'.root].isLeaf
                       /\ Len(tree'.nodes[tree'.root].keys) = 1
                       /\ Len(tree'.nodes[tree'.root].children) = 2
       /\ \A k \in AllKeys :
             DeleteStep(k) => Height(tree'.nodes, tree'.root) <= Height(tree.nodes, tree.root)]_vars

\* The three-level tree right after the insert whose split went from the
\* leaf through the full root: a new root with one key over two internal
\* nodes.
C35_Witness ==
    /\ Height(tree.nodes, tree.root) = 3
    /\ Len(tree.nodes[tree.root].keys) = 1
    /\ Len(tree.nodes[tree.root].children) = 2
    /\ \A k \in TallKeys : abs[k] # 0

\* ----------------------------------------------- the root after Delete (C36)
\* C36: root handling on Delete.  After every Delete the tree has one root
\* that is either a leaf or an internal node with at least one key; a root
\* left with zero keys and one child is replaced by that child, and deleting
\* the last key of the tree leaves a single empty leaf as root.
C36_RootAfterDelete ==
    [][\A k \in AllKeys :
          DeleteStep(k) =>
              /\ tree'.root \in DOMAIN tree'.nodes
              /\ tree'.nodes[tree'.root].isLeaf \/ Len(tree'.nodes[tree'.root].keys) >= 1
              /\ ~tree.nodes[tree.root].isLeaf =>
                    LET r == delete(tree.nodes, tree.root, k)
                    IN (Len(r.h[tree.root].keys) = 0 /\ Len(r.h[tree.root].children) = 1) =>
                          tree' = Normalize([root |-> r.h[tree.root].children[1], nodes |-> r.h])
              /\ (ChainKeys(tree) = <<k>>) => tree' = NewBPlusTree]_vars

\* The three-level index emptied key by key: its root was replaced by its
\* only child on the way down, and the last Delete left one empty leaf.
C36_Witness ==
    /\ tree = NewBPlusTree
    /\ \A k \in TallKeys : abs[k] = 0

\* -------------------------------------------- the order of the repairs (C37)
\* The internal nodes Delete(key) passes from node n down to the parent of
\* the leaf, each with the 0-based index of the child it descends to.
RECURSIVE DeletePath(_, _, _)
DeletePath(h, n, key) ==
    IF h[n].isLeaf THEN <<>>
    ELSE LET i == DescendScan(h[n].keys, key)
         IN <<[node |-> n, index |-> i]>> \o DeletePath(h, h[n].children[i + 1], key)

\* Child i (0-based) of node p has an adjacent left, or right, sibling with
\* more than MIN_KEYS keys.
LeftCanDonate(h, p, i) == i > 0 /\ Len(h[h[p].children[i]].keys) > MIN_KEYS
RightCanDonate(h, p, i) ==
    i < Len(h[p].children) - 1 /\ Len(h[h[p].children[i + 2]].keys) > MIN_KEYS

InternalNodes(t) == DOMAIN t.nodes \ LeafNodes(t)

\* The leaf under parent p at index i is repaired as the claim says.
LeafRepair(p, i) ==
    LET h == tree.nodes
        leaf == h[p].children[i + 1]
    IN IF LeftCanDonate(h, p, i)
       THEN LET left == h[p].children[i]
            IN /\ DOMAIN tree'.nodes = DOMAIN h
               /\ tree'.nodes[left].keys = SubSeq(h[left].keys, 1, Len(h[left].keys) - 1)
               /\ tree'.nodes[leaf].keys = <<h[left].keys[Len(h[left].keys)]>>
               /\ tree'.nodes[p].keys[i] = tree'.nodes[leaf].keys[1]
               /\ i < Len(h[p].children) - 1 =>
                     tree'.nodes[h[p].children[i + 2]] = h[h[p].children[i + 2]]
       ELSE IF RightCanDonate(h, p, i)
       THEN LET right == h[p].children[i + 2]
            IN /\ DOMAIN tree'.nodes = DOMAIN h
               /\ tree'.nodes[right].keys = Tail(h[right].keys)
               /\ tree'.nodes[leaf].keys = <<h[right].keys[1]>>
               /\ tree'.nodes[p].keys[i + 1] = tree'.nodes[right].keys[1]
               /\ i > 0 => tree'.nodes[h[p].children[i]] = h[h[p].children[i]]
       ELSE Cardinality(LeafNodes(tree')) = Cardinality(LeafNodes(tree)) - 1

\* The internal node under parent g at index j, left without keys by the
\* merge of its leaves, is repaired in the same order.
InternalRepair(g, j) ==
    LET h == tree.nodes
    IN IF LeftCanDonate(h, g, j)
       THEN LET left == h[g].children[j]
            IN /\ Cardinality(InternalNodes(tree')) = Cardinality(InternalNodes(tree))
               /\ Len(tree'.nodes[left].keys) = Len(h[left].keys) - 1
       ELSE IF RightCanDonate(h, g, j)
       THEN LET right == h[g].children[j + 2]
            IN /\ Cardinality(InternalNodes(tree')) = Cardinality(InternalNodes(tree))
               /\ Len(tree'.nodes[right].keys) = Len(h[right].keys) - 1
       ELSE Cardinality(InternalNodes(tree')) < Cardinality(InternalNodes(tree))

\* The leaf Delete(k) reaches under the last node of path holds k alone.
LeafUnderflows(path, k) ==
    LET p == path[Len(path)]
    IN tree.nodes[tree.nodes[p.node].children[p.index + 1]].keys = <<k>>

\* C37: underflow resolution order.  When a child underflows, the parent
\* borrows from the adjacent left sibling if that sibling has more than
\* MIN_KEYS keys, otherwise from the adjacent right sibling if it has more
\* than MIN_KEYS keys, and merges only when neither adjacent sibling can
\* donate; after a leaf borrow the parent separator between donor and
\* receiver equals the first key of the right-hand node of the pair.
C37_UnderflowOrder ==
    [][\A k \in AllKeys :
          (DeleteStep(k) /\ ~tree.nodes[tree.root].isLeaf) =>
              LET path == DeletePath(tree.nodes, tree.root, k)
                  n == Len(path)
              IN LeafUnderflows(path, k) =>
                    /\ LeafRepair(path[n].node, path[n].index)
                    /\ (/\ n > 1
                        /\ ~LeftCanDonate(tree.nodes, path[n].node, path[n].index)
                        /\ ~RightCanDonate(tree.nodes, path[n].node, path[n].index)
                        /\ Len(tree.nodes[path[n].node].keys) - 1 < MIN_KEYS)
                          => InternalRepair(path[n - 1].node, path[n - 1].index)]_vars

\* The index filled with 1..9 after Delete 5, 6 (the third leaf borrowed the
\* last key of its left sibling, the separator became that key) and
\* Delete 1, 2 (the first leaf, whose right sibling could not donate, was
\* merged with it).
C37_Witness ==
    /\ ChainKeys(tree) = <<3, 4, 7, 8, 9>>
    /\ tree.nodes[tree.root].keys = <<4, 7>>
    /\ Cardinality(LeafNodes(tree)) = 3

\* ------------------------------------------------ what Delete reports (C38)
\* The (key, value) pairs stored in the leaves of t, in chain order.
StoredEntries(t) == ChainEntries(t.nodes, Chain(t.nodes, LeftmostLeaf(t.nodes, t.root)))

\* C38: Delete reports presence.  In every reachable tree state Delete(k)
\* returns true if and only if Get(k) would have found k immediately before
\* the call, and when it returns false the set of stored keys and values is
\* unchanged.
C38_DeleteReportsPresence ==
    \A k \in AllKeys :
        /\ Delete(tree, k).ret = Get(tree, k).found
        /\ ~Delete(tree, k).ret => StoredEntries(Delete(tree, k).t) = StoredEntries(tree)

\* A tree of two levels or more in which Delete of one stored key would
\* underflow its leaf and report true, and Delete of a key that was deleted
\* before reports false.
C38_Witness ==
    /\ ~tree.nodes[tree.root].isLeaf
    /\ \E k \in DOMAIN abs :
          /\ abs[k] # 0
          /\ Get(tree, k).found
          /\ tree.nodes[GetLeaf(tree.nodes, tree.root, k)].keys = <<k>>
          /\ Delete(tree, k).ret
    /\ \E k \in DOMAIN abs :
          /\ k < tree.nodes[tree.root].keys[1]
          /\ abs[k] = 0
          /\ ~Get(tree, k).found
          /\ ~Delete(tree, k).ret

\* ---------------------------------- UPDATE of a pending delete (C39)
\* Key k of table t is in the transaction's merged view: it has a pending
\* upsert, or it is in the index and has no pending delete.
VisibleInTx(t, k) ==
    k \in PendingUpserts(t) \/ (ExistsInMain(t, k) /\ k \notin PendingDeletes(t))

\* Key k of table t is one UPDATE accepts inside the transaction.
KnownInTx(t, k) ==
    ExistsInMain(t, k) \/ k \in PendingUpserts(t) \/ k \in PendingDeletes(t)

StatementKeys(kvs) == {kvs[i].Key : i \in DOMAIN kvs}

Begins(x) == {i \in DOMAIN wal : wal[i] = BeginTx(<<>>, x)[1]}
Commits(x) == {i \in DOMAIN wal : wal[i] = CommitTx(<<>>, x)[1]}
Rollbacks(x) == {i \in DOMAIN wal : wal[i] = RollbackTx(<<>>, x)[1]}
Tagged(x) == {i \in DOMAIN wal : wal[i] \in TaggedLines(x)}

\* C40: log well-formedness.  In the WAL produced by any sequence of Execute
\* calls, every SET/DELETE/DROP TABLE record tagged with id X lies after the
\* BEGIN_TX X record and before the single COMMIT_TX X record, no record
\* tagged X follows a ROLLBACK_TX X, each BEGIN_TX X has at most one
\* terminator, and no second BEGIN_TX is written before the terminator of the
\* previous one.
C40_LogWellFormed ==
    /\ \A x \in TxIds :
          /\ Cardinality(Begins(x)) <= 1
          /\ Cardinality(Commits(x)) <= 1
          /\ Cardinality(Commits(x) \cup Rollbacks(x)) <= 1
          /\ \A i \in Commits(x) \cup Rollbacks(x) : \E b \in Begins(x) : b < i
          /\ \A i \in Tagged(x) :
                /\ \E b \in Begins(x) : b < i
                /\ \E c \in Commits(x) : i < c
                /\ \A r \in Rollbacks(x) : i < r
    /\ \A x \in TxIds, y \in TxIds :
          \A b1 \in Begins(x), b2 \in Begins(y) :
              b1 < b2 => \E e \in Commits(x) \cup Rollbacks(x) : b1 < e /\ e < b2

\* A transaction has committed a tagged record, a second BEGIN followed its
\* COMMIT_TX, and the second transaction is active.
C40_Witness ==
    /\ Len(wal) = MaxEngineLog
    /\ \E x \in TxIds, y \in TxIds :
          /\ Tagged(x) # {}
          /\ Commits(x) # {}
          /\ Begins(y) # {}
          /\ \A c \in Commits(x), b \in Begins(y) : c < b
          /\ currentTxID = y

====
